---- MODULE Spec2Model ----
(***************************************************************************)
(* A model of the wirerust filter engine: typed values, schema, context,   *)
(* function registry, the lowering of expression trees to stack bytecode   *)
(* (DefaultCompiler::compile_ir) and the stack machine that runs it        *)
(* (IrCompiledFilter::execute).                                            *)
(*                                                                         *)
(* Encodings.  Option<T>: None is <<>>, Some(x) is <<x>>.  A byte string   *)
(* is a sequence of byte values (0..255).  A HashMap is a function whose   *)
(* DOMAIN is its key set.  A FieldType is the chain of its constructors:   *)
(* Array(Array(Int)) is <<"Array", "Array", "Int">>.  TLC integers are 32  *)
(* bits wide, so usize::MAX is modelled by the largest TLC integer.        *)
(***************************************************************************)
EXTENDS Integers, Sequences, FiniteSets, TLC

VARIABLES field_values, set_call, functions, expr, bytecode, pc, stack, result, phase,
          builder_fields, field_calls, built, input, runs, registered

\* the FilterSchemaBuilder under construction, the field() calls made on it and
\* the schema it was built into
schema_vars == <<builder_fields, field_calls, built>>

vars == <<field_values, set_call, functions, expr, bytecode, pc, stack, result, phase,
          schema_vars, input, runs, registered>>

(***************************************************************************)
(* Bounds of the model.                                                    *)
(***************************************************************************)
\* number of FilterContext::set calls made before the filter is executed
MaxSets == 2
\* argument count of the long function calls among the expressions
ManyArgs == 256
\* number of FilterSchemaBuilder::field calls made before build
MaxFieldCalls == 3
\* length of the subjects and patterns of the wildcard comparisons
MaxGlobLen == 3
\* number of threads that call execute on one shared CompiledFilter
NumThreads == 2
\* number of FunctionRegistry::register calls made before the filter is compiled
MaxRegisters == 3
\* length of the arrays handed to sum
MaxSumLen == 3

(***************************************************************************)
(* Option and HashMap helpers.                                             *)
(***************************************************************************)
None == <<>>
Some(x) == <<x>>
IsSome(o) == o # <<>>
Unwrap(o) == o[1]

EmptyMap == [k \in {} |-> k]
MapGet(m, k) == IF k \in DOMAIN m THEN Some(m[k]) ELSE None
MapInsert(m, k, x) == [y \in (DOMAIN m) \cup {k} |-> IF y = k THEN x ELSE m[y]]

(***************************************************************************)
(* types.rs: LiteralValue and FieldType.                                   *)
(***************************************************************************)
VBytes(s) == [t |-> "Bytes", v |-> s]
VInt(i) == [t |-> "Int", v |-> i]
VBool(b) == [t |-> "Bool", v |-> b]
VIp(a) == [t |-> "Ip", v |-> a]
VArray(vals) == [t |-> "Array", v |-> vals]
VMap(m) == [t |-> "Map", v |-> m]

TBytes == <<"Bytes">>
TInt == <<"Int">>
TBool == <<"Bool">>
TIp == <<"Ip">>
TUnknown == <<"Unknown">>
TArray(elem) == <<"Array">> \o elem
TMap(elem) == <<"Map">> \o elem

\* impl PartialEq for LiteralValue: same variant and equal payload, recursively
RECURSIVE ValueEq(_, _)
ValueEq(a, b) ==
    /\ a.t = b.t
    /\ CASE a.t = "Array" ->
              /\ Len(a.v) = Len(b.v)
              /\ \A i \in 1..Len(a.v) : ValueEq(a.v[i], b.v[i])
         [] a.t = "Map" ->
              /\ DOMAIN a.v = DOMAIN b.v
              /\ \A k \in DOMAIN a.v : ValueEq(a.v[k], b.v[k])
         [] OTHER -> a.v = b.v

\* <[LiteralValue]>::contains
SliceContains(vals, x) == \E i \in 1..Len(vals) : ValueEq(vals[i], x)

\* LiteralValue::get_type_with_hint; get_type is the call with hint None
RECURSIVE get_type_with_hint(_, _)
get_type_with_hint(val, hint) ==
    CASE val.t = "Bytes" -> TBytes
      [] val.t = "Int" -> TInt
      [] val.t = "Bool" -> TBool
      [] val.t = "Ip" -> TIp
      [] val.t = "Array" ->
           IF Len(val.v) = 0
           THEN IF IsSome(hint) /\ Head(Unwrap(hint)) = "Array"
                THEN Unwrap(hint)
                ELSE TArray(TUnknown)
           ELSE LET first_ty == get_type_with_hint(val.v[1], None)
                IN IF \A i \in 1..Len(val.v) : get_type_with_hint(val.v[i], None) = first_ty
                   THEN TArray(first_ty)
                   ELSE TArray(TUnknown)
      [] val.t = "Map" ->
           IF DOMAIN val.v = {}
           THEN IF IsSome(hint) /\ Head(Unwrap(hint)) = "Map"
                THEN Unwrap(hint)
                ELSE TMap(TUnknown)
           ELSE LET first_ty == get_type_with_hint(val.v[CHOOSE k \in DOMAIN val.v : TRUE], None)
                IN IF \A k \in DOMAIN val.v : get_type_with_hint(val.v[k], None) = first_ty
                   THEN TMap(first_ty)
                   ELSE TMap(TUnknown)

get_type(val) == get_type_with_hint(val, None)

(***************************************************************************)
(* Byte strings used by the model (ASCII), and their ordering.             *)
(***************************************************************************)
foo == <<102, 111, 111>>
bar == <<98, 97, 114>>
arr == <<97, 114, 114>>
baz == <<98, 97, 122>>
unknown == <<117, 110, 107>>

\* Ord for String / [u8]: lexicographic on the bytes
RECURSIVE BytesLess(_, _)
BytesLess(a, b) ==
    IF Len(b) = 0 THEN FALSE
    ELSE IF Len(a) = 0 THEN TRUE
    ELSE IF a[1] # b[1] THEN a[1] < b[1]
    ELSE BytesLess(Tail(a), Tail(b))

IsContinuation(b) == b >= 128 /\ b <= 191

\* length of the well-formed UTF-8 sequence at the head of bytes, 0 if there is none
Utf8Len(bytes) ==
    LET b == bytes[1]
        n == Len(bytes)
    IN IF b < 128 THEN 1
       ELSE IF /\ b >= 194 /\ b <= 223 /\ n >= 2
               /\ IsContinuation(bytes[2])
            THEN 2
       ELSE IF /\ b >= 224 /\ b <= 239 /\ n >= 3
               /\ IsContinuation(bytes[2]) /\ IsContinuation(bytes[3])
               /\ (b = 224 => bytes[2] >= 160)
               /\ (b = 237 => bytes[2] <= 159)
            THEN 3
       ELSE IF /\ b >= 240 /\ b <= 244 /\ n >= 4
               /\ IsContinuation(bytes[2]) /\ IsContinuation(bytes[3]) /\ IsContinuation(bytes[4])
               /\ (b = 240 => bytes[2] >= 144)
               /\ (b = 244 => bytes[2] <= 143)
            THEN 4
       ELSE 0

\* std::str::from_utf8(..).is_ok()
RECURSIVE IsUtf8(_)
IsUtf8(bytes) ==
    IF Len(bytes) = 0 THEN TRUE
    ELSE /\ Utf8Len(bytes) > 0
         /\ IsUtf8(SubSeq(bytes, Utf8Len(bytes) + 1, Len(bytes)))

\* str::chars: the code points of a UTF-8 string
RECURSIVE chars(_)
chars(bytes) ==
    IF Len(bytes) = 0 THEN <<>>
    ELSE LET k == Utf8Len(bytes)
             c == CASE k = 1 -> bytes[1]
                    [] k = 2 -> (bytes[1] - 192) * 64 + (bytes[2] - 128)
                    [] k = 3 -> (bytes[1] - 224) * 4096 + (bytes[2] - 128) * 64 + (bytes[3] - 128)
                    [] k = 4 -> (bytes[1] - 240) * 262144 + (bytes[2] - 128) * 4096
                                + (bytes[3] - 128) * 64 + (bytes[4] - 128)
         IN <<c>> \o chars(SubSeq(bytes, k + 1, Len(bytes)))

\* char::encode_utf8
encode_utf8(c) ==
    IF c < 128 THEN <<c>>
    ELSE IF c < 2048 THEN <<192 + (c \div 64), 128 + (c % 64)>>
    ELSE IF c < 65536 THEN <<224 + (c \div 4096), 128 + ((c \div 64) % 64), 128 + (c % 64)>>
    ELSE <<240 + (c \div 262144), 128 + ((c \div 4096) % 64), 128 + ((c \div 64) % 64),
           128 + (c % 64)>>

\* String::from_iter(chars): the UTF-8 bytes of a run of code points
RECURSIVE string_of(_)
string_of(cs) == IF Len(cs) = 0 THEN <<>> ELSE encode_utf8(cs[1]) \o string_of(Tail(cs))

(***************************************************************************)
(* schema.rs: FilterSchemaBuilder::build and the FilterSchema lookups.     *)
(***************************************************************************)
\* the names in descending order
RECURSIVE SortNames_Descending(_)
SortNames_Descending(names) ==
    IF names = {} THEN <<>>
    ELSE LET greatest == CHOOSE n \in names : \A k \in names \ {n} : BytesLess(k, n)
         IN <<greatest>> \o SortNames_Descending(names \ {greatest})

\* sorted_names.sort(): the names in ascending order
RECURSIVE SortNames(_)
SortNames(names) ==
    IF names = {} THEN <<>>
    ELSE LET least == CHOOSE n \in names : \A m \in names \ {n} : BytesLess(n, m)
         IN <<least>> \o SortNames(names \ {least})

\* build with the ids counted from 1
SchemaBuild_IdsFromOne(fields) ==
    LET field_names == SortNames(DOMAIN fields)
    IN [fields |-> fields,
        field_names |-> field_names,
        field_ids |-> [n \in DOMAIN fields |->
                          CHOOSE i \in 1..Len(field_names) : field_names[i] = n]]

\* FilterSchemaBuilder::build on the builder's name -> type map
SchemaBuild(fields) ==
    LET field_names == SortNames(DOMAIN fields)
    IN [fields |-> fields,
        field_names |-> field_names,
        field_ids |-> [n \in DOMAIN fields |->
                          (CHOOSE i \in 1..Len(field_names) : field_names[i] = n) - 1]]

\* the schema of the unit tests: foo: Int, bar: Bytes, arr: Array(Int)
TestFields ==
    [n \in {foo, bar, arr} |->
        IF n = foo THEN TInt ELSE IF n = bar THEN TBytes ELSE TArray(TInt)]

schema == SchemaBuild(TestFields)

get_field_type(sch, name) == MapGet(sch.fields, name)
field_id(sch, name) == MapGet(sch.field_ids, name)
field_name(sch, id) == IF id < Len(sch.field_names) THEN Some(sch.field_names[id + 1]) ELSE None
num_fields(sch) == Len(sch.field_names)

\* FilterSchemaBuilder::new and FilterSchemaBuilder::field (HashMap::insert)
SchemaBuilderNew == EmptyMap
\* field() keeping the type of the first call for a name
builder_field_KeepFirst(fields, name, ty) ==
    IF name \in DOMAIN fields THEN fields ELSE MapInsert(fields, name, ty)
builder_field(fields, name, ty) == MapInsert(fields, name, ty)

(***************************************************************************)
(* context.rs: FilterContext.                                              *)
(***************************************************************************)
\* FilterContext::set_by_id: grow the slot vector with None, then store
set_by_id(fv, fid, value) ==
    LET grown == IF Len(fv) <= fid
                 THEN fv \o [i \in 1..(fid + 1 - Len(fv)) |-> None]
                 ELSE fv
    IN [grown EXCEPT ![fid + 1] = Some(value)]

\* FilterContext::get_by_id
get_by_id(fv, fid) == IF fid < Len(fv) THEN fv[fid + 1] ELSE None

\* set with the slot written before the type is checked
set_StoreThenCheck(fv, field, value, sch) ==
    LET expected == get_field_type(sch, field)
        fid == field_id(sch, field)
    IN IF ~IsSome(expected)
       THEN [res |-> "FieldNotFound", fv |-> fv]
       ELSE IF get_type(value) = Unwrap(expected)
            THEN [res |-> "Ok", fv |-> set_by_id(fv, Unwrap(fid), value)]
            ELSE [res |-> "TypeError", fv |-> set_by_id(fv, Unwrap(fid), value)]

\* FilterContext::set: the result and the slot vector after the call
set(fv, field, value, sch) ==
    LET expected == get_field_type(sch, field)
    IN IF ~IsSome(expected)
       THEN [res |-> "FieldNotFound", fv |-> fv]
       ELSE LET expected_type == Unwrap(expected)
                value_type == get_type(value)
                fid == field_id(sch, field)
                stored == IF IsSome(fid) THEN set_by_id(fv, Unwrap(fid), value) ELSE fv
            IN IF /\ Head(expected_type) = "Array"
                  /\ Head(value_type) = "Array"
                  /\ Tail(value_type) = TUnknown
               THEN [res |-> "Ok", fv |-> stored]
               ELSE IF value_type = expected_type
                    THEN [res |-> "Ok", fv |-> stored]
                    ELSE [res |-> "TypeError", fv |-> fv]

\* FilterContext::set_int .. set_array: `let _ = self.set(..)`, the context is
\* returned whatever set answered
typed_set(fv, field, value, sch) == set(fv, field, value, sch).fv

\* FilterContextBuilder::set_int .. set_array: the typed setter, then Ok(self);
\* dropped is the answer of the inner set that no caller sees
builder_set(fv, field, value, sch) ==
    [res |-> "Ok",
     fv |-> typed_set(fv, field, value, sch),
     dropped |-> set(fv, field, value, sch).res]

(***************************************************************************)
(* functions.rs: the callables, the registry and the built-in fast path.   *)
(***************************************************************************)
first(args) == IF Len(args) > 0 THEN Some(args[1]) ELSE None
get(args, i) == IF i < Len(args) THEN Some(args[i + 1]) ELSE None

\* length of the ill-formed run at the head of bytes that from_utf8_lossy
\* replaces by one U+FFFD: the longest prefix of it that begins a UTF-8 sequence
InvalidLen(bytes) ==
    LET b == bytes[1]
        n == Len(bytes)
        second_ok == /\ n >= 2
                     /\ IsContinuation(bytes[2])
                     /\ (b = 224 => bytes[2] >= 160)
                     /\ (b = 237 => bytes[2] <= 159)
                     /\ (b = 240 => bytes[2] >= 144)
                     /\ (b = 244 => bytes[2] <= 143)
    IN IF b < 194 \/ b > 244 THEN 1
       ELSE IF ~second_ok THEN 1
       ELSE IF b <= 223 THEN 2
       ELSE IF ~(n >= 3 /\ IsContinuation(bytes[3])) THEN 2
       ELSE IF b <= 239 THEN 3
       ELSE IF ~(n >= 4 /\ IsContinuation(bytes[4])) THEN 3
       ELSE 4

\* String::from_utf8_lossy: each ill-formed run becomes U+FFFD (EF BF BD)
RECURSIVE from_utf8_lossy(_)
from_utf8_lossy(bytes) ==
    IF Len(bytes) = 0 THEN <<>>
    ELSE IF Utf8Len(bytes) > 0
         THEN SubSeq(bytes, 1, Utf8Len(bytes))
              \o from_utf8_lossy(SubSeq(bytes, Utf8Len(bytes) + 1, Len(bytes)))
         ELSE <<239, 191, 189>>
              \o from_utf8_lossy(SubSeq(bytes, InvalidLen(bytes) + 1, Len(bytes)))

\* the Greek sigmas: capital, small, and small final
CapitalSigma == 931
SmallSigma == 963
FinalSigma == 962

\* core::unicode::Cased and Case_Ignorable, on ASCII and the sigmas
Cased(c) ==
    \/ c >= 65 /\ c <= 90
    \/ c >= 97 /\ c <= 122
    \/ c \in {CapitalSigma, SmallSigma, FinalSigma}
Case_Ignorable(c) == c \in {39, 46, 58, 94, 96}

\* case_ignorable_then_cased over the characters after position i, and over the
\* characters before it read backwards
RECURSIVE CasedAfter(_, _)
CasedAfter(cs, i) ==
    IF i >= Len(cs) THEN FALSE
    ELSE IF Case_Ignorable(cs[i + 1]) THEN CasedAfter(cs, i + 1)
    ELSE Cased(cs[i + 1])
RECURSIVE CasedBefore(_, _)
CasedBefore(cs, i) ==
    IF i <= 1 THEN FALSE
    ELSE IF Case_Ignorable(cs[i - 1]) THEN CasedBefore(cs, i - 1)
    ELSE Cased(cs[i - 1])

\* map_uppercase_sigma: the capital sigma at position i becomes the final sigma
\* at the end of a word, and the small sigma elsewhere
map_uppercase_sigma(cs, i) ==
    IF CasedBefore(cs, i) /\ ~CasedAfter(cs, i) THEN FinalSigma ELSE SmallSigma

\* str::to_lowercase and str::to_uppercase, on ASCII and the sigmas (the other
\* characters of the model have no case)
to_lowercase(s) ==
    LET cs == chars(s)
    IN string_of([i \in 1..Len(cs) |->
                     IF cs[i] = CapitalSigma THEN map_uppercase_sigma(cs, i)
                     ELSE IF cs[i] >= 65 /\ cs[i] <= 90 THEN cs[i] + 32
                     ELSE cs[i]])
to_uppercase(s) ==
    LET cs == chars(s)
    IN string_of([i \in 1..Len(cs) |->
                     IF cs[i] \in {SmallSigma, FinalSigma} THEN CapitalSigma
                     ELSE IF cs[i] >= 97 /\ cs[i] <= 122 THEN cs[i] - 32
                     ELSE cs[i]])

starts_with(h, p) == Len(p) <= Len(h) /\ SubSeq(h, 1, Len(p)) = p
ends_with(h, s) == Len(s) <= Len(h) /\ SubSeq(h, Len(h) - Len(s) + 1, Len(h)) = s
\* str::contains: the needle occurs somewhere in the haystack
str_contains(h, n) == \E i \in 0..(Len(h) - Len(n)) : SubSeq(h, i + 1, i + Len(n)) = n

\* the sum of the Int elements of an array, the others skipped
\* i64::MAX and i64::MIN: as for usize::MAX, the width of the integer is the
\* width of a TLC integer
I64_MAX == 2147483647
I64_MIN == (0 - I64_MAX) - 1

\* a + b leaves the range of i64
AddOverflows(a, b) ==
    \/ b > 0 /\ a > I64_MAX - b
    \/ b < 0 /\ a < I64_MIN - b

\* i64 addition in two's complement: a + b, less or plus 2^64 when it leaves
\* the range
wrapping_add(a, b) ==
    IF b > 0 /\ a > I64_MAX - b THEN ((a - I64_MAX) - 1) + ((b - I64_MAX) - 1)
    ELSE IF b < 0 /\ a < I64_MIN - b THEN ((a + I64_MAX) + 1) + ((b + I64_MAX) + 1)
    ELSE a + b

\* the filter_map of sum: the Int elements, in order
RECURSIVE IntsOf(_)
IntsOf(vals) ==
    IF Len(vals) = 0 THEN <<>>
    ELSE IF vals[1].t = "Int" THEN <<vals[1].v>> \o IntsOf(Tail(vals))
    ELSE IntsOf(Tail(vals))

\* Iterator::sum on i64 without overflow checks: the fold of + from 0, wrapping
RECURSIVE FoldAdd(_, _)
FoldAdd(acc, ints) ==
    IF Len(ints) = 0 THEN acc ELSE FoldAdd(wrapping_add(acc, ints[1]), Tail(ints))

\* an addition of that fold leaves the range of i64: with overflow checks
\* (the default of a debug build) Iterator::sum panics there
RECURSIVE FoldOverflows(_, _)
FoldOverflows(acc, ints) ==
    IF Len(ints) = 0 THEN FALSE
    ELSE AddOverflows(acc, ints[1]) \/ FoldOverflows(wrapping_add(acc, ints[1]), Tail(ints))

SumInts(vals) == FoldAdd(0, IntsOf(vals))
SumOverflows(vals) == FoldOverflows(0, IntsOf(vals))

\* the bodies shared by the built-in callables and by call_builtin
BuiltinBody(id, args) ==
    LET a == first(args)
        b == get(args, 1)
    IN CASE id = "Len" ->
              IF IsSome(a) /\ Unwrap(a).t = "Array"
              THEN Some(VInt(Len(Unwrap(a).v))) ELSE None
         [] id = "Upper" ->
              IF IsSome(a) /\ Unwrap(a).t = "Bytes"
              THEN Some(VBytes(to_uppercase(from_utf8_lossy(Unwrap(a).v)))) ELSE None
         [] id = "Lower" ->
              IF IsSome(a) /\ Unwrap(a).t = "Bytes"
              THEN Some(VBytes(to_lowercase(from_utf8_lossy(Unwrap(a).v)))) ELSE None
         [] id = "Sum" ->
              IF IsSome(a) /\ Unwrap(a).t = "Array"
              THEN Some(VInt(SumInts(Unwrap(a).v))) ELSE None
         [] id = "StartsWith" ->
              IF IsSome(a) /\ Unwrap(a).t = "Bytes" /\ IsSome(b) /\ Unwrap(b).t = "Bytes"
              THEN Some(VBool(starts_with(from_utf8_lossy(Unwrap(a).v),
                                          from_utf8_lossy(Unwrap(b).v))))
              ELSE None
         [] id = "EndsWith" ->
              IF IsSome(a) /\ Unwrap(a).t = "Bytes" /\ IsSome(b) /\ Unwrap(b).t = "Bytes"
              THEN Some(VBool(ends_with(from_utf8_lossy(Unwrap(a).v),
                                        from_utf8_lossy(Unwrap(b).v))))
              ELSE None

\* call_builtin: the fast path of the evaluator
call_builtin(id, args) == BuiltinBody(id, args)

\* BuiltinFunctionId::from_name
from_name(name) ==
    CASE name = "len" -> Some("Len")
      [] name = "upper" -> Some("Upper")
      [] name = "lower" -> Some("Lower")
      [] name = "sum" -> Some("Sum")
      [] name = "starts_with" -> Some("StartsWith")
      [] name = "ends_with" -> Some("EndsWith")
      [] OTHER -> None

\* FilterFunction::call of a registered callable: the six built-in structs of
\* builtin_functions!, and the closure |_args| Some(Bool(true)) of the tests
call(func, args) ==
    CASE func = "LenFunction" -> BuiltinBody("Len", args)
      [] func = "UpperFunction" -> BuiltinBody("Upper", args)
      [] func = "LowerFunction" -> BuiltinBody("Lower", args)
      [] func = "SumFunction" -> BuiltinBody("Sum", args)
      [] func = "StartsWithFunction" -> BuiltinBody("StartsWith", args)
      [] func = "EndsWithFunction" -> BuiltinBody("EndsWith", args)
      [] func = "AlwaysTrue" -> Some(VBool(TRUE))
      [] OTHER -> None

\* the body of sum runs on an array whose addition overflows
BodyOverflows(id, args) ==
    /\ id = "Sum"
    /\ IsSome(first(args))
    /\ Unwrap(first(args)).t = "Array"
    /\ SumOverflows(Unwrap(first(args)).v)

\* FunctionRegistry::num_functions
num_functions(reg) == Len(reg.function_names)

\* FunctionRegistry::new
EmptyRegistry == [functions |-> EmptyMap, function_names |-> <<>>, function_ids |-> EmptyMap]

\* register giving every registration a new id, of a registered name too
register_FreshId(reg, name, func) ==
    [functions |-> MapInsert(reg.functions, name, func),
     function_names |-> Append(reg.function_names, name),
     function_ids |-> MapInsert(reg.function_ids, name, Len(reg.function_names))]

\* FunctionRegistry::register
register(reg, name, func) ==
    LET fresh == name \notin DOMAIN reg.function_ids
    IN [functions |-> MapInsert(reg.functions, name, func),
        function_names |-> IF fresh THEN Append(reg.function_names, name)
                           ELSE reg.function_names,
        function_ids |-> IF fresh
                         THEN MapInsert(reg.function_ids, name, Len(reg.function_names))
                         ELSE reg.function_ids]

\* register_builtins: the six registrations of builtin_functions!, in order
register_builtins(reg) ==
    register(register(register(register(register(register(reg,
        "len", "LenFunction"), "upper", "UpperFunction"), "lower", "LowerFunction"),
        "sum", "SumFunction"), "starts_with", "StartsWithFunction"),
        "ends_with", "EndsWithFunction")

function_id(reg, name) == MapGet(reg.function_ids, name)
function_name(reg, id) ==
    IF id < Len(reg.function_names) THEN Some(reg.function_names[id + 1]) ELSE None
registry_get_by_id(reg, id) ==
    IF id < Len(reg.function_names)
    THEN MapGet(reg.functions, reg.function_names[id + 1])
    ELSE None

(***************************************************************************)
(* expr.rs: FilterExpr.  ir.rs: Instruction.                               *)
(***************************************************************************)
LogicalOp(op, left, right) == [e |-> "LogicalOp", op |-> op, left |-> left, right |-> right]
Comparison(left, op, right) == [e |-> "Comparison", op |-> op, left |-> left, right |-> right]
Not(inner) == [e |-> "Not", inner |-> inner]
Value(val) == [e |-> "Value", val |-> val]
FunctionCall(name, args) == [e |-> "FunctionCall", name |-> name, args |-> args]
List(vals) == [e |-> "List", vals |-> vals]

ComparisonOps ==
    {"Eq", "Neq", "Lt", "Lte", "Gt", "Gte", "In", "NotIn",
     "Matches", "Wildcard", "StrictWildcard", "Contains"}

LoadField(fid) == [op |-> "LoadField", fid |-> fid]
LoadLiteral(lit) == [op |-> "LoadLiteral", lit |-> lit]
CallFunction(fid, argc) == [op |-> "CallFunction", fid |-> fid, argc |-> argc]
Compare(cmp) == [op |-> "Compare", cmp |-> cmp]
CompareWildcard(strict) == [op |-> "CompareWildcard", strict |-> strict]
LogicalAnd == [op |-> "LogicalAnd"]
LogicalOr == [op |-> "LogicalOr"]
LogicalNot == [op |-> "LogicalNot"]

\* usize::MAX, the function id emitted for an unknown name
USIZE_MAX == 2147483647
\* the argument count of CallFunction is a u8
U8_RANGE == 256

(***************************************************************************)
(* compiler.rs: DefaultCompiler::compile_ir.                               *)
(***************************************************************************)
\* the opcode pushed for a comparison operator
CompareOpcode(op) ==
    CASE op = "Eq" -> Compare("CompareEq")
      [] op = "Neq" -> Compare("CompareNeq")
      [] op = "Lt" -> Compare("CompareLt")
      [] op = "Lte" -> Compare("CompareLte")
      [] op = "Gt" -> Compare("CompareGt")
      [] op = "Gte" -> Compare("CompareGte")
      [] op = "In" -> Compare("CompareIn")
      [] op = "NotIn" -> Compare("CompareNotIn")
      [] op = "Matches" -> Compare("CompareMatches")
      [] op = "Wildcard" -> CompareWildcard(FALSE)
      [] op = "StrictWildcard" -> CompareWildcard(TRUE)
      [] op = "Contains" -> Compare("CompareContains")

\* the FilterExpr::Value arm with every value emitted as a literal
CompileValue_AlwaysLiteral(val, sch) == <<LoadLiteral(val)>>

\* the FilterExpr::Value arm: a Bytes that names a schema field is a field load
CompileValue(val, sch) ==
    IF val.t = "Bytes" /\ IsUtf8(val.v) /\ IsSome(field_id(sch, val.v))
    THEN <<LoadField(Unwrap(field_id(sch, val.v)))>>
    ELSE <<LoadLiteral(val)>>

\* the call instruction of the FilterExpr::FunctionCall arm
CompileCall(name, nargs, fns) ==
    IF IsSome(function_id(fns, name))
    THEN CallFunction(Unwrap(function_id(fns, name)), nargs % U8_RANGE)
    ELSE CallFunction(USIZE_MAX, nargs % U8_RANGE)

\* the operands of a binary node with the right one left out
CompileOperands_DropRight(left_code, right_code) == left_code

\* the operands of a binary node: the left one, then the right one
CompileOperands(left_code, right_code) == left_code \o right_code

\* the concatenation of a sequence of sequences (by halves, to keep the nesting shallow)
RECURSIVE Concat(_)
Concat(seqs) ==
    IF Len(seqs) = 0 THEN <<>>
    ELSE IF Len(seqs) = 1 THEN seqs[1]
    ELSE LET half == Len(seqs) \div 2
         IN Concat(SubSeq(seqs, 1, half)) \o Concat(SubSeq(seqs, half + 1, Len(seqs)))

RECURSIVE compile_ir(_, _, _)
RECURSIVE CompileArgs(_, _, _)
\* the loop over args of the FunctionCall arm: the code of each argument, in order
CompileArgs(args, sch, fns) == Concat([i \in 1..Len(args) |-> compile_ir(args[i], sch, fns)])

\* the instructions compile_ir appends to code for the expression ex
compile_ir(ex, sch, fns) ==
    CASE ex.e = "LogicalOp" ->
           Append(CompileOperands(compile_ir(ex.left, sch, fns), compile_ir(ex.right, sch, fns)),
                  IF ex.op = "And" THEN LogicalAnd ELSE LogicalOr)
      [] ex.e = "Comparison" ->
           Append(CompileOperands(compile_ir(ex.left, sch, fns), compile_ir(ex.right, sch, fns)),
                  CompareOpcode(ex.op))
      [] ex.e = "Not" -> Append(compile_ir(ex.inner, sch, fns), LogicalNot)
      [] ex.e = "Value" -> CompileValue(ex.val, sch)
      [] ex.e = "FunctionCall" ->
           Append(CompileArgs(ex.args, sch, fns), CompileCall(ex.name, Len(ex.args), fns))
      [] ex.e = "List" -> <<LoadLiteral(VArray(ex.vals))>>

(***************************************************************************)
(* compiler.rs: the helpers of IrCompiledFilter::execute.                  *)
(***************************************************************************)
\* to_bool with an empty byte string counting as false
to_bool_EmptyBytesFalse(val) ==
    CASE val.t = "Bool" -> val.v
      [] val.t = "Int" -> val.v # 0
      [] val.t = "Bytes" -> Len(val.v) # 0
      [] val.t = "Array" -> Len(val.v) # 0
      [] val.t = "Ip" -> TRUE
      [] val.t = "Map" -> DOMAIN val.v # {}

to_bool(val) ==
    CASE val.t = "Bool" -> val.v
      [] val.t = "Int" -> val.v # 0
      [] val.t = "Bytes" -> TRUE
      [] val.t = "Array" -> Len(val.v) # 0
      [] val.t = "Ip" -> TRUE
      [] val.t = "Map" -> DOMAIN val.v # {}

\* cmp_ord with the closure of the opcode cmp
cmp_ord(a, b, cmp) ==
    IF a.t = "Int" /\ b.t = "Int"
    THEN CASE cmp = "CompareLt" -> a.v < b.v
           [] cmp = "CompareLte" -> a.v <= b.v
           [] cmp = "CompareGt" -> a.v > b.v
           [] cmp = "CompareGte" -> a.v >= b.v
    ELSE FALSE

\* cmp_in with the fallback arm returning true
cmp_in_NonArrayTrue(a, b) == IF b.t = "Array" THEN SliceContains(b.v, a) ELSE TRUE

cmp_in(a, b) == IF b.t = "Array" THEN SliceContains(b.v, a) ELSE FALSE

\* cmp_matches as built without the regex feature: substring containment
cmp_matches(a, b) ==
    IF a.t = "Bytes" /\ b.t = "Bytes"
    THEN IF IsUtf8(a.v) /\ IsUtf8(b.v) THEN str_contains(a.v, b.v) ELSE FALSE
    ELSE FALSE

RECURSIVE wildcard_match_bytes(_, _)
wildcard_match_bytes(s, pat) ==
    IF Len(pat) = 0 THEN Len(s) = 0
    ELSE IF pat[1] = 42
         THEN \E i \in 0..Len(s) :
                 wildcard_match_bytes(SubSeq(s, i + 1, Len(s)), Tail(pat))
         ELSE IF Len(s) # 0 /\ pat[1] = s[1]
              THEN wildcard_match_bytes(Tail(s), Tail(pat))
              ELSE FALSE

wildcard_match(s, pat, case_sensitive) ==
    IF case_sensitive
    THEN wildcard_match_bytes(s, pat)
    ELSE wildcard_match_bytes(to_lowercase(s), to_lowercase(pat))

cmp_wildcard(a, b, case_sensitive) ==
    IF a.t = "Bytes" /\ b.t = "Bytes"
    THEN IF ~IsUtf8(a.v) THEN FALSE
         ELSE IF ~IsUtf8(b.v) THEN FALSE
         ELSE wildcard_match(a.v, b.v, case_sensitive)
    ELSE FALSE

cmp_contains(a, b) ==
    IF a.t = "Bytes" /\ b.t = "Bytes"
    THEN IF IsUtf8(a.v) /\ IsUtf8(b.v) THEN str_contains(a.v, b.v) ELSE FALSE
    ELSE IF a.t = "Array" THEN SliceContains(a.v, b)
    ELSE FALSE

\* the Bool pushed by a compare instruction for the popped left and right
CompareResult(ins, left, right) ==
    IF ins.op = "CompareWildcard" THEN cmp_wildcard(left, right, ins.strict)
    ELSE CASE ins.cmp = "CompareEq" -> ValueEq(left, right)
           [] ins.cmp = "CompareNeq" -> ~ValueEq(left, right)
           [] ins.cmp \in {"CompareLt", "CompareLte", "CompareGt", "CompareGte"} ->
                cmp_ord(left, right, ins.cmp)
           [] ins.cmp = "CompareIn" -> cmp_in(left, right)
           [] ins.cmp = "CompareNotIn" -> ~cmp_in(left, right)
           [] ins.cmp = "CompareMatches" -> cmp_matches(left, right)
           [] ins.cmp = "CompareContains" -> cmp_contains(left, right)

\* LoadField with an unset slot read as Int(0)
LoadFieldValue_IntZero(fv, fid) ==
    IF IsSome(get_by_id(fv, fid)) THEN Unwrap(get_by_id(fv, fid)) ELSE VInt(0)

\* the value LoadField pushes: the slot, or Bool(false) when it is unset
LoadFieldValue(fv, fid) ==
    IF IsSome(get_by_id(fv, fid)) THEN Unwrap(get_by_id(fv, fid)) ELSE VBool(FALSE)

\* CallFunction trying the registered callable before the built-in fast path
CallResult_CallableFirst(fns, fid, args) ==
    LET name == function_name(fns, fid)
        builtin_id == IF IsSome(name) THEN from_name(Unwrap(name)) ELSE None
        func == registry_get_by_id(fns, fid)
    IN IF IsSome(func) THEN call(Unwrap(func), args)
       ELSE IF IsSome(builtin_id) THEN call_builtin(Unwrap(builtin_id), args)
       ELSE None

\* CallFunction with an unknown function id evaluating to Bool(false)
CallResult_UnknownFalse(fns, fid, args) ==
    LET name == function_name(fns, fid)
        builtin_id == IF IsSome(name) THEN from_name(Unwrap(name)) ELSE None
        func == registry_get_by_id(fns, fid)
    IN IF IsSome(builtin_id) THEN call_builtin(Unwrap(builtin_id), args)
       ELSE IF IsSome(func) THEN call(Unwrap(func), args)
       ELSE Some(VBool(FALSE))

\* the CallFunction arm after the arguments are split off: Some(value) to push,
\* or None for Err(FunctionError)
CallResult(fns, fid, args) ==
    LET name == function_name(fns, fid)
        builtin_id == IF IsSome(name) THEN from_name(Unwrap(name)) ELSE None
        func == registry_get_by_id(fns, fid)
    IN IF IsSome(builtin_id) THEN call_builtin(Unwrap(builtin_id), args)
       ELSE IF IsSome(func) THEN call(Unwrap(func), args)
       ELSE None

\* the call made by the CallFunction arm overflows in sum: by the fast path, or
\* by the SumFunction callable
CallOverflows(fns, fid, args) ==
    LET name == function_name(fns, fid)
        builtin_id == IF IsSome(name) THEN from_name(Unwrap(name)) ELSE None
        func == registry_get_by_id(fns, fid)
    IN IF IsSome(builtin_id) THEN BodyOverflows(Unwrap(builtin_id), args)
       ELSE IsSome(func) /\ Unwrap(func) = "SumFunction" /\ BodyOverflows("Sum", args)

\* the Bool pushed by LogicalAnd / LogicalOr for the popped left and right
LogicalResult(ins, left, right) ==
    IF ins.op = "LogicalAnd"
    THEN IF ~to_bool(left) THEN FALSE ELSE to_bool(right)
    ELSE IF to_bool(left) THEN TRUE ELSE to_bool(right)

\* the outcomes of execute
Running == [running |-> TRUE]
Ok(b) == [ok |-> b]
Err(kind) == [err |-> kind]
\* unwrap() of an empty pop, or split_off past the stack
Panic == [panic |-> "stack underflow"]
OverflowPanic == [panic |-> "attempt to add with overflow"]

IsOk(r) == DOMAIN r = {"ok"}
IsErr(r) == DOMAIN r = {"err"}

Top(stk) == stk[Len(stk)]
Pop(stk, n) == SubSeq(stk, 1, Len(stk) - n)

(***************************************************************************)
(* expr.rs: FilterParser.  The input is a sequence of characters (strings  *)
(* of length one) over ASCII, so a byte offset is a character offset.  A   *)
(* parsing function takes the input and the position and answers POk with  *)
(* the value and the new position, or PErr.                                *)
(***************************************************************************)
LowerCase ==
    <<"a", "b", "c", "d", "e", "f", "g", "h", "i", "j", "k", "l", "m",
      "n", "o", "p", "q", "r", "s", "t", "u", "v", "w", "x", "y", "z">>
DigitChars == <<"0", "1", "2", "3", "4", "5", "6", "7", "8", "9">>

InSeq(seq, c) == \E i \in 1..Len(seq) : seq[i] = c
IndexOf(seq, c) == CHOOSE i \in 1..Len(seq) : seq[i] = c

is_ascii_digit(c) == InSeq(DigitChars, c)
is_alphanumeric(c) == InSeq(LowerCase, c) \/ InSeq(DigitChars, c)
is_whitespace(c) == c = " "

\* the byte of an ASCII character
as_byte(c) ==
    IF InSeq(LowerCase, c) THEN 96 + IndexOf(LowerCase, c)
    ELSE IF InSeq(DigitChars, c) THEN 47 + IndexOf(DigitChars, c)
    ELSE CASE c = " " -> 32 [] c = "!" -> 33 [] c = "\"" -> 34 [] c = "&" -> 38
           [] c = "(" -> 40 [] c = ")" -> 41 [] c = "*" -> 42 [] c = "," -> 44
           [] c = "-" -> 45 [] c = "." -> 46 [] c = "<" -> 60 [] c = "=" -> 61
           [] c = ">" -> 62 [] c = "_" -> 95 [] c = "{" -> 123 [] c = "|" -> 124
           [] c = "}" -> 125

\* String::into_bytes / str::as_bytes
into_bytes(s) == [i \in 1..Len(s) |-> as_byte(s[i])]

\* the String of a run of characters
RECURSIVE to_string(_)
to_string(s) == IF Len(s) = 0 THEN "" ELSE s[1] \o to_string(Tail(s))

POk(val, pos) == [ok |-> TRUE, val |-> val, pos |-> pos]
PErr == [ok |-> FALSE]

peek(inp, pos) == IF pos < Len(inp) THEN Some(inp[pos + 1]) ELSE None

RECURSIVE skip_whitespace(_, _)
skip_whitespace(inp, pos) ==
    IF pos < Len(inp) /\ is_whitespace(inp[pos + 1])
    THEN skip_whitespace(inp, pos + 1)
    ELSE pos

\* self.input[self.pos..].starts_with(s)
input_starts_with(inp, pos, s) ==
    /\ pos + Len(s) <= Len(inp)
    /\ \A i \in 1..Len(s) : inp[pos + i] = s[i]

\* end of the run of alphanumeric, '_' and '.' characters that starts at pos
RECURSIVE IdentEnd(_, _)
IdentEnd(inp, pos) ==
    IF pos < Len(inp) /\ (is_alphanumeric(inp[pos + 1]) \/ inp[pos + 1] \in {"_", "."})
    THEN IdentEnd(inp, pos + 1)
    ELSE pos

parse_identifier(inp, pos0) ==
    LET start == skip_whitespace(inp, pos0)
        end == IdentEnd(inp, start)
    IN IF end > start THEN POk(SubSeq(inp, start + 1, end), end) ELSE PErr

\* the operator table of parse_operator, in its order
OperatorTable ==
    << [tok |-> <<"=", "=">>, op |-> "Eq"],
       [tok |-> <<"e", "q">>, op |-> "Eq"],
       [tok |-> <<"!", "=">>, op |-> "Neq"],
       [tok |-> <<"n", "e">>, op |-> "Neq"],
       [tok |-> <<"<", "=">>, op |-> "Lte"],
       [tok |-> <<"l", "e">>, op |-> "Lte"],
       [tok |-> <<">", "=">>, op |-> "Gte"],
       [tok |-> <<"g", "e">>, op |-> "Gte"],
       [tok |-> <<"<">>, op |-> "Lt"],
       [tok |-> <<"l", "t">>, op |-> "Lt"],
       [tok |-> <<">">>, op |-> "Gt"],
       [tok |-> <<"g", "t">>, op |-> "Gt"],
       [tok |-> <<"i", "n">>, op |-> "In"],
       [tok |-> <<"n", "o", "t", " ", "i", "n">>, op |-> "NotIn"],
       [tok |-> <<"m", "a", "t", "c", "h", "e", "s">>, op |-> "Matches"],
       [tok |-> <<"w", "i", "l", "d", "c", "a", "r", "d">>, op |-> "Wildcard"],
       [tok |-> <<"s", "t", "r", "i", "c", "t", " ", "w", "i", "l", "d", "c", "a", "r", "d">>,
        op |-> "StrictWildcard"],
       [tok |-> <<"c", "o", "n", "t", "a", "i", "n", "s">>, op |-> "Contains"] >>

\* parse_operator taking the shortest entry that the rest of the input starts with
parse_operator_ShortestMatch(inp, pos0) ==
    LET pos == skip_whitespace(inp, pos0)
        hits == {i \in 1..Len(OperatorTable) : input_starts_with(inp, pos, OperatorTable[i].tok)}
    IN IF hits = {} THEN PErr
       ELSE LET i == CHOOSE k \in hits :
                        \A j \in hits : Len(OperatorTable[k].tok) <= Len(OperatorTable[j].tok)
            IN POk(OperatorTable[i].op, pos + Len(OperatorTable[i].tok))

\* the first entry of the table that the rest of the input starts with
parse_operator(inp, pos0) ==
    LET pos == skip_whitespace(inp, pos0)
        hits == {i \in 1..Len(OperatorTable) : input_starts_with(inp, pos, OperatorTable[i].tok)}
    IN IF hits = {} THEN PErr
       ELSE LET i == CHOOSE k \in hits : \A j \in hits : k <= j
            IN POk(OperatorTable[i].op, pos + Len(OperatorTable[i].tok))

\* position of the closing quote at or after pos, or the end of the input
RECURSIVE QuoteAt(_, _)
QuoteAt(inp, pos) ==
    IF pos < Len(inp) /\ inp[pos + 1] # "\"" THEN QuoteAt(inp, pos + 1) ELSE pos

parse_string_literal(inp, pos0) ==
    LET pos == skip_whitespace(inp, pos0)
    IN IF peek(inp, pos) # Some("\"") THEN PErr
       ELSE LET start == pos + 1
                end == QuoteAt(inp, start)
            IN IF peek(inp, end) # Some("\"") THEN PErr
               ELSE POk(VBytes(into_bytes(SubSeq(inp, start + 1, end))), end + 1)

RECURSIVE DigitsEnd(_, _)
DigitsEnd(inp, pos) ==
    IF pos < Len(inp) /\ is_ascii_digit(inp[pos + 1]) THEN DigitsEnd(inp, pos + 1) ELSE pos

\* the decimal digits of i64::MAX, 9223372036854775807
I64MaxDigits == <<9, 2, 2, 3, 3, 7, 2, 0, 3, 6, 8, 5, 4, 7, 7, 5, 8, 0, 7>>

DigitsOf(s) == [i \in 1..Len(s) |-> IndexOf(DigitChars, s[i]) - 1]

RECURSIVE StripZeros(_)
StripZeros(d) == IF Len(d) > 1 /\ d[1] = 0 THEN StripZeros(Tail(d)) ELSE d

\* d <= e for digit strings of the same length
RECURSIVE DigitsLeq(_, _)
DigitsLeq(d, e) ==
    IF Len(d) = 0 THEN TRUE
    ELSE IF d[1] # e[1] THEN d[1] < e[1]
    ELSE DigitsLeq(Tail(d), Tail(e))

RECURSIVE DigitsValue(_)
DigitsValue(d) == IF Len(d) = 0 THEN 0 ELSE 10 * DigitsValue(SubSeq(d, 1, Len(d) - 1)) + d[Len(d)]

\* str::parse::<i64>: an optional '-', then one digit or more, within the range
\* of i64 (the magnitude of i64::MIN is one more than i64::MAX)
parse_i64(s) ==
    LET negative == Len(s) > 0 /\ s[1] = "-"
        d == StripZeros(DigitsOf(IF negative THEN Tail(s) ELSE s))
        limit == IF negative
                 THEN [I64MaxDigits EXCEPT ![Len(I64MaxDigits)] = 8]
                 ELSE I64MaxDigits
    IN IF Len(d) = 0 THEN None
       ELSE IF Len(d) > Len(limit) \/ (Len(d) = Len(limit) /\ ~DigitsLeq(d, limit)) THEN None
       ELSE Some(IF negative THEN 0 - DigitsValue(d) ELSE DigitsValue(d))

parse_int_literal(inp, pos0) ==
    LET start == skip_whitespace(inp, pos0)
        after_sign == IF peek(inp, start) = Some("-") THEN start + 1 ELSE start
        end == DigitsEnd(inp, after_sign)
    IN IF end > start
       THEN LET n == parse_i64(SubSeq(inp, start + 1, end))
            IN IF IsSome(n) THEN POk(VInt(Unwrap(n)), end) ELSE PErr
       ELSE PErr

parse_literal(inp, pos0) ==
    LET pos == skip_whitespace(inp, pos0)
        c == peek(inp, pos)
    IN IF ~IsSome(c) THEN PErr
       ELSE IF c = Some("\"") THEN parse_string_literal(inp, pos)
       ELSE IF is_ascii_digit(Unwrap(c)) \/ c = Some("-") THEN parse_int_literal(inp, pos)
       ELSE IF input_starts_with(inp, pos, <<"t", "r", "u", "e">>) THEN POk(VBool(TRUE), pos + 4)
       ELSE IF input_starts_with(inp, pos, <<"f", "a", "l", "s", "e">>) THEN POk(VBool(FALSE), pos + 5)
       ELSE PErr

\* the loop of parse_list_literal: literals up to the closing brace
RECURSIVE ListItems(_, _, _)
ListItems(inp, pos0, items) ==
    LET pos == skip_whitespace(inp, pos0)
    IN IF peek(inp, pos) = Some("}") THEN POk(items, pos + 1)
       ELSE LET item == parse_literal(inp, pos)
            IN IF item.ok THEN ListItems(inp, item.pos, Append(items, item.val)) ELSE PErr

parse_list_literal(inp, pos) ==
    IF input_starts_with(inp, pos, <<"{">>) THEN ListItems(inp, pos + 1, <<>>) ELSE PErr

RECURSIVE parse_expr(_, _)
RECURSIVE parse_or(_, _)
RECURSIVE OrLoop(_, _)
RECURSIVE parse_and(_, _)
RECURSIVE AndLoop(_, _)
RECURSIVE parse_not(_, _)
RECURSIVE parse_expr_or_value(_, _)
RECURSIVE parse_comparison(_, _)
RECURSIVE ComparisonRest(_, _)
RECURSIVE RightOperand(_, _)
RECURSIVE ParsePrimary(_, _)
RECURSIVE CallArgs(_, _, _)
RECURSIVE CallArgsNext(_, _, _)

parse_expr(inp, pos) == parse_or(inp, pos)

\* position after `||` or `or` at pos, if one of them is there
ConsumeOr(inp, pos) ==
    IF input_starts_with(inp, pos, <<"|", "|">>) THEN Some(pos + 2)
    ELSE IF input_starts_with(inp, pos, <<"o", "r">>) THEN Some(pos + 2)
    ELSE None

\* left = Expr::LogicalOp { op: Or, left, right }, or the error of the right operand
OrOf(left, right) ==
    IF right.ok THEN POk(LogicalOp("Or", left.val, right.val), right.pos) ELSE PErr

\* the loop of parse_or on the result of the left operand: `||` or `or`, then
\* the next operand
OrLoop(inp, left) ==
    IF ~left.ok THEN PErr
    ELSE LET pos == skip_whitespace(inp, left.pos)
             after == ConsumeOr(inp, pos)
         IN IF IsSome(after)
            THEN OrLoop(inp, OrOf(left, parse_and(inp, skip_whitespace(inp, Unwrap(after)))))
            ELSE POk(left.val, pos)

parse_or(inp, pos0) == OrLoop(inp, parse_and(inp, skip_whitespace(inp, pos0)))

\* position after `&&` or `and` at pos, if one of them is there
ConsumeAnd(inp, pos) ==
    IF input_starts_with(inp, pos, <<"&", "&">>) THEN Some(pos + 2)
    ELSE IF input_starts_with(inp, pos, <<"a", "n", "d">>) THEN Some(pos + 3)
    ELSE None

\* left = Expr::LogicalOp { op: And, left, right }, or the error of the right operand
AndOf(left, right) ==
    IF right.ok THEN POk(LogicalOp("And", left.val, right.val), right.pos) ELSE PErr

\* the loop of parse_and on the result of the left operand: `&&` or `and`, then
\* the next operand
AndLoop(inp, left) ==
    IF ~left.ok THEN PErr
    ELSE LET pos == skip_whitespace(inp, left.pos)
             after == ConsumeAnd(inp, pos)
         IN IF IsSome(after)
            THEN AndLoop(inp, AndOf(left, parse_not(inp, skip_whitespace(inp, Unwrap(after)))))
            ELSE POk(left.val, pos)

parse_and(inp, pos0) == AndLoop(inp, parse_not(inp, skip_whitespace(inp, pos0)))

\* Ok(Expr::Not(Box::new(expr))), or the error of the operand
NotOf(inner) == IF inner.ok THEN POk(Not(inner.val), inner.pos) ELSE PErr

parse_not(inp, pos0) ==
    LET pos == skip_whitespace(inp, pos0)
    IN IF input_starts_with(inp, pos, <<"n", "o", "t">>)
       THEN NotOf(parse_not(inp, pos + 3))
       ELSE parse_comparison(inp, pos)

\* a literal, else an identifier, else a full expression
parse_expr_or_value(inp, pos0) ==
    LET start_pos == skip_whitespace(inp, pos0)
        lit == parse_literal(inp, start_pos)
        ident == parse_identifier(inp, start_pos)
    IN IF lit.ok THEN POk(Value(lit.val), lit.pos)
       ELSE IF ident.ok THEN POk(Value(VBytes(into_bytes(ident.val))), ident.pos)
       ELSE parse_expr(inp, start_pos)

\* the loop over the arguments of a call: an identifier, else parse_expr_or_value
CallArgs(inp, start_pos, args) ==
    LET ident == parse_identifier(inp, start_pos)
    IN CallArgsNext(inp, args,
                    IF ident.ok
                    THEN POk(Value(VBytes(into_bytes(ident.val))), ident.pos)
                    ELSE parse_expr_or_value(inp, start_pos))

\* args.push(arg), then a ',' and the next argument, or the end of the loop
CallArgsNext(inp, args, arg) ==
    IF ~arg.ok THEN PErr
    ELSE LET pos == skip_whitespace(inp, arg.pos)
         IN IF peek(inp, pos) = Some(",")
            THEN CallArgs(inp, skip_whitespace(inp, pos + 1), Append(args, arg.val))
            ELSE POk(Append(args, arg.val), pos)

\* the ')' after a parenthesized expression
ParenClose(inp, inner) ==
    IF ~inner.ok THEN PErr
    ELSE LET close == skip_whitespace(inp, inner.pos)
         IN IF input_starts_with(inp, close, <<")">>)
            THEN POk(inner.val, close + 1)
            ELSE PErr

\* the ')' after the arguments of a call, and the FunctionCall
CallClose(inp, name, args) ==
    IF ~args.ok THEN PErr
    ELSE IF input_starts_with(inp, args.pos, <<")">>)
    THEN POk(FunctionCall(to_string(name), args.val), args.pos + 1)
    ELSE PErr

\* the left operand of parse_comparison: a parenthesized expression, a function
\* call or an identifier
ParsePrimary(inp, pos) ==
    IF peek(inp, pos) = Some("(")
    THEN ParenClose(inp, parse_expr(inp, pos + 1))
    ELSE LET ident == parse_identifier(inp, pos)
         IN IF ~ident.ok THEN PErr
            ELSE LET after == skip_whitespace(inp, ident.pos)
                     first_arg == skip_whitespace(inp, after + 1)
                     list == parse_list_literal(inp, after)
                 IN IF peek(inp, after) = Some("(")
                    THEN CallClose(inp, ident.val,
                                   IF peek(inp, first_arg) # Some(")")
                                   THEN CallArgs(inp, first_arg, <<>>)
                                   ELSE POk(<<>>, first_arg))
                    ELSE IF ident.val = <<"{">>
                    THEN IF list.ok THEN POk(List(list.val), list.pos) ELSE PErr
                    ELSE POk(Value(VBytes(into_bytes(ident.val))), after)

\* Ok(Expr::Comparison { left, op, right }), or the error of the right operand
ComparisonOf(left, op, right) ==
    IF right.ok THEN POk(Comparison(left.val, op.val, right.val), right.pos) ELSE PErr

\* the right operand of a comparison: a list literal after '{', else
\* parse_expr_or_value
RightOperand(inp, rhs) ==
    LET list == parse_list_literal(inp, rhs)
    IN IF peek(inp, rhs) = Some("{")
       THEN IF list.ok
            THEN POk(Value(VArray(list.val)), skip_whitespace(inp, list.pos))
            ELSE PErr
       ELSE parse_expr_or_value(inp, rhs)

\* parse_comparison after its left operand: an operator and a right operand,
\* or the left operand alone
ComparisonRest(inp, left) ==
    IF ~left.ok THEN PErr
    ELSE LET pos == skip_whitespace(inp, left.pos)
             op == parse_operator(inp, pos)
         IN IF op.ok
            THEN ComparisonOf(left, op, RightOperand(inp, skip_whitespace(inp, op.pos)))
            ELSE POk(left.val, pos)

parse_comparison(inp, pos0) == ComparisonRest(inp, ParsePrimary(inp, skip_whitespace(inp, pos0)))

\* the end of parse: nothing but whitespace after the expression
WholeInput(inp, parsed) ==
    IF ~parsed.ok THEN Err("ParseError")
    ELSE IF skip_whitespace(inp, parsed.pos) < Len(inp) THEN Err("ParseError")
    ELSE [ok |-> parsed.val]

\* the end of parse without the look at what follows the expression
AnyRest(inp, parsed) ==
    IF ~parsed.ok THEN Err("ParseError") ELSE [ok |-> parsed.val]

\* parse accepting whatever follows the expression
parse_IgnoreRest(inp) == AnyRest(inp, parse_expr(inp, 0))

\* FilterParser::parse: the expression, then nothing but whitespace
parse(inp) == WholeInput(inp, parse_expr(inp, 0))

(***************************************************************************)
(* The inputs: the writes made to the context, the registrations, and the  *)
(* expression trees handed to the compiler.                                *)
(***************************************************************************)
ba == <<98, 97>>
localhost == <<127, 0, 0, 1>>

SetFields == {foo, bar, arr, unknown}

SetValues ==
    {VInt(1), VBytes(baz), VBool(TRUE), VIp(localhost),
     VArray(<<>>), VArray(<<VInt(1)>>), VArray(<<VInt(1), VBytes(baz)>>),
     VArray(<<VBytes(baz)>>), VArray(<<VArray(<<>>)>>), VMap(EmptyMap)}

\* the values the typed setters can write: Int, Bool, Ip, Bytes, Array
BuilderValues == {v \in SetValues : v.t # "Map"}

\* what the parser yields on the left of a comparison: an identifier
LeftLeaves == {Value(VBytes(foo)), Value(VBytes(arr)), Value(VBytes(bar)), Value(VBytes(unknown))}

\* what it yields on the right: an identifier, a literal or a list literal
RightLeaves ==
    {Value(VBytes(foo)), Value(VBytes(arr)), Value(VInt(1)), Value(VBool(FALSE)),
     Value(VBytes(baz)), Value(VArray(<<VBool(FALSE)>>)), Value(VArray(<<VInt(1)>>))}

ArgLeaves == {Value(VBytes(foo)), Value(VBytes(bar)), Value(VBytes(arr)), Value(VBytes(ba))}

CallNames ==
    {"len", "upper", "lower", "sum", "starts_with", "ends_with", "always_true", "missing_fn"}

LeafComparisons ==
    {Comparison(l, op, r) : l \in LeftLeaves, op \in ComparisonOps, r \in RightLeaves}

ShortCalls ==
    {FunctionCall(n, args) : n \in CallNames,
                             args \in {<<>>} \cup {<<a>> : a \in ArgLeaves}
                                      \cup {<<a, b>> : a \in ArgLeaves, b \in ArgLeaves}}

LongCalls ==
    {FunctionCall(n, [i \in 1..ManyArgs |-> Value(VBytes(foo))]) :
        n \in {"always_true", "missing_fn", "len"}}

CallComparisons ==
    {Comparison(FunctionCall("len", <<Value(VBytes(arr))>>), op, Value(VInt(1))) :
        op \in ComparisonOps}
    \cup {Comparison(Value(VBytes(foo)), "Eq", FunctionCall("len", <<Value(VBytes(arr))>>))}

LogicOperands ==
    {FunctionCall("always_true", <<>>), FunctionCall("missing_fn", <<>>),
     Value(VBytes(foo)), Value(VBytes(baz)),
     Comparison(Value(VBytes(foo)), "Eq", Value(VInt(1)))}

LogicalExprs ==
    {LogicalOp(op, l, r) : op \in {"And", "Or"}, l \in LogicOperands, r \in LogicOperands}
    \cup {Not(x) : x \in LogicOperands}
    \cup {Not(Not(x)) : x \in LogicOperands}
    \cup {LogicalOp(op, LogicalOp("Or", x, Not(x)), Comparison(x, "Neq", Value(VInt(1)))) :
             op \in {"And", "Or"}, x \in {Value(VBytes(foo)), FunctionCall("always_true", <<>>)}}

Exprs ==
    LeafComparisons \cup ShortCalls \cup LongCalls \cup CallComparisons \cup LogicalExprs
    \cup LeftLeaves \cup {List(<<VInt(1)>>)}

(***************************************************************************)
(* One call of IrCompiledFilter::execute as a record of its locals: the    *)
(* context it borrows, its pc and stack, and the value it returns.         *)
(***************************************************************************)
Threads == 1..NumThreads

\* a thread that is not inside execute
IdleRun == [ctx |-> <<>>, pc |-> 0, stack |-> <<>>, result |-> Running, phase |-> "idle"]

\* the entry of execute starting at the pc the previous call of the thread ended at
EntryState_KeepPc(prev, ctx) ==
    [ctx |-> ctx, pc |-> prev.pc, stack |-> <<>>, result |-> Running, phase |-> "exec"]

\* the entry of execute: a fresh stack and pc 0, whatever the thread ran before
EntryState(prev, ctx) ==
    [ctx |-> ctx, pc |-> 0, stack |-> <<>>, result |-> Running, phase |-> "exec"]

\* one iteration of the loop of execute, or the match after it, on the locals
\* (the additions of sum wrapping)
ExecStep(code, fns, run) ==
    LET stk == run.stack
        push(rest, val) == [run EXCEPT !.stack = Append(rest, val), !.pc = run.pc + 1]
        halt(rest, r) == [run EXCEPT !.stack = rest, !.result = r, !.phase = "done"]
    IN IF run.pc >= Len(code)
       THEN IF Len(stk) = 0 THEN halt(stk, Err("ExecutionError"))
            ELSE halt(Pop(stk, 1), Ok(to_bool(Top(stk))))
       ELSE LET ins == code[run.pc + 1]
            IN CASE ins.op = "LoadField" -> push(stk, LoadFieldValue(run.ctx, ins.fid))
                 [] ins.op = "LoadLiteral" -> push(stk, ins.lit)
                 [] ins.op = "CallFunction" ->
                      IF Len(stk) < ins.argc THEN halt(stk, Panic)
                      ELSE LET args == SubSeq(stk, Len(stk) - ins.argc + 1, Len(stk))
                               r == CallResult(fns, ins.fid, args)
                           IN IF IsSome(r) THEN push(Pop(stk, ins.argc), Unwrap(r))
                              ELSE halt(Pop(stk, ins.argc), Err("FunctionError"))
                 [] ins.op \in {"Compare", "CompareWildcard"} ->
                      IF Len(stk) < 2 THEN halt(stk, Panic)
                      ELSE push(Pop(stk, 2),
                                VBool(CompareResult(ins, stk[Len(stk) - 1], Top(stk))))
                 [] ins.op \in {"LogicalAnd", "LogicalOr"} ->
                      IF Len(stk) < 2 THEN halt(stk, Panic)
                      ELSE push(Pop(stk, 2),
                                VBool(LogicalResult(ins, stk[Len(stk) - 1], Top(stk))))
                 [] ins.op = "LogicalNot" ->
                      IF Len(stk) < 1 THEN halt(stk, Panic)
                      ELSE push(Pop(stk, 1), VBool(~to_bool(Top(stk))))

\* execute run from entry to return with nothing else running
RECURSIVE RunToEnd(_, _, _)
RunToEnd(code, fns, run) ==
    IF run.phase = "done" THEN run.result ELSE RunToEnd(code, fns, ExecStep(code, fns, run))

execute(code, fns, ctx) == RunToEnd(code, fns, EntryState(IdleRun, ctx))

(***************************************************************************)
(* The state machine.  A context is filled by FilterContext::set and a     *)
(* registry by register calls; then an expression is compiled and the      *)
(* bytecode is run one instruction per step.                               *)
(***************************************************************************)
\* the last write to the context: the FilterContext::set call made (field, value
\* and its result res), the entry point it was made through (via) and the
\* result that entry point reported to its caller
NoSetCall ==
    [n |-> 0, field |-> <<>>, value |-> VBool(FALSE), res |-> "None",
     via |-> "None", reported |-> "None"]

Init ==
    /\ field_values = <<>>
    /\ set_call = NoSetCall
    /\ functions = EmptyRegistry
    /\ expr = Value(VBool(FALSE))
    /\ bytecode = <<>>
    /\ pc = 0
    /\ stack = <<>>
    /\ result = Running
    /\ phase = "build"
    /\ builder_fields = SchemaBuilderNew
    /\ field_calls = <<>>
    /\ built = None
    /\ input = <<>>
    /\ runs = [t \in Threads |-> IdleRun]
    /\ registered = <<>>

\* ctx.set(field, value, &schema)
ContextSet ==
    /\ phase = "build"
    /\ set_call.n < MaxSets
    /\ \E field \in SetFields, value \in SetValues :
          LET r == set(field_values, field, value, schema)
          IN /\ field_values' = r.fv
             /\ set_call' = [n |-> set_call.n + 1, field |-> field,
                             value |-> value, res |-> r.res,
                             via |-> "set", reported |-> r.res]
    /\ UNCHANGED <<functions, expr, bytecode, pc, stack, result, phase,
                 schema_vars, input, runs, registered>>

\* FilterContextBuilder::new(&schema).set_int(..) .. set_array(..): the typed
\* setter of the context is called, its result dropped, and Ok(self) returned
BuilderSet ==
    /\ phase = "build"
    /\ set_call.n < MaxSets
    /\ set_call.via \in {"None", "builder"}
    /\ \E field \in SetFields, value \in BuilderValues :
          LET r == builder_set(field_values, field, value, schema)
          IN /\ field_values' = r.fv
             /\ set_call' = [n |-> set_call.n + 1, field |-> field,
                             value |-> value, res |-> r.dropped,
                             via |-> "builder", reported |-> r.res]
    /\ UNCHANGED <<functions, expr, bytecode, pc, stack, result, phase,
                 schema_vars, input, runs, registered>>

\* register_builtins(&mut functions)
RegisterBuiltins ==
    /\ phase = "build"
    /\ functions' = register_builtins(functions)
    /\ UNCHANGED <<field_values, set_call, expr, bytecode, pc, stack, result, phase,
                 schema_vars, input, runs, registered>>

\* functions.register_fn("always_true", |_args| Some(LiteralValue::Bool(true)))
RegisterFn ==
    /\ phase = "build"
    /\ functions' = register(functions, "always_true", "AlwaysTrue")
    /\ UNCHANGED <<field_values, set_call, expr, bytecode, pc, stack, result, phase,
                 schema_vars, input, runs, registered>>

\* DefaultCompiler::compile, and the entry of execute
Compile ==
    /\ phase = "build"
    /\ \E ex \in Exprs :
          /\ expr' = ex
          /\ bytecode' = compile_ir(ex, schema, functions)
    /\ pc' = 0
    /\ stack' = <<>>
    /\ set_call' = NoSetCall
    /\ phase' = "exec"
    /\ UNCHANGED <<field_values, functions, result,
                 schema_vars, input, runs, registered>>

Fetch == bytecode[pc + 1]
AtInstruction(ops) == phase = "exec" /\ pc < Len(bytecode) /\ Fetch.op \in ops

Halt(r) ==
    /\ result' = r
    /\ phase' = "done"
    /\ UNCHANGED <<pc, stack>>

Push(stk, val) ==
    /\ stack' = Append(stk, val)
    /\ pc' = pc + 1
    /\ UNCHANGED <<result, phase>>

ExecLoadField ==
    /\ AtInstruction({"LoadField"})
    /\ Push(stack, LoadFieldValue(field_values, Fetch.fid))
    /\ UNCHANGED <<field_values, set_call, functions, expr, bytecode,
                 schema_vars, input, runs, registered>>

ExecLoadLiteral ==
    /\ AtInstruction({"LoadLiteral"})
    /\ Push(stack, Fetch.lit)
    /\ UNCHANGED <<field_values, set_call, functions, expr, bytecode,
                 schema_vars, input, runs, registered>>

\* an overflow in sum either panics (overflow checks on) or wraps (off)
ExecCallFunction ==
    /\ AtInstruction({"CallFunction"})
    /\ IF Len(stack) < Fetch.argc
       THEN Halt(Panic)
       ELSE LET args == SubSeq(stack, Len(stack) - Fetch.argc + 1, Len(stack))
                r == CallResult(functions, Fetch.fid, args)
            IN \/ /\ CallOverflows(functions, Fetch.fid, args)
                  /\ result' = OverflowPanic
                  /\ phase' = "done"
                  /\ stack' = Pop(stack, Fetch.argc)
                  /\ pc' = pc
               \/ IF IsSome(r)
                  THEN Push(Pop(stack, Fetch.argc), Unwrap(r))
                  ELSE /\ result' = Err("FunctionError")
                       /\ phase' = "done"
                       /\ stack' = Pop(stack, Fetch.argc)
                       /\ pc' = pc
    /\ UNCHANGED <<field_values, set_call, functions, expr, bytecode,
                 schema_vars, input, runs, registered>>

ExecCompare ==
    /\ AtInstruction({"Compare", "CompareWildcard"})
    /\ IF Len(stack) < 2
       THEN Halt(Panic)
       ELSE Push(Pop(stack, 2),
                 VBool(CompareResult(Fetch, stack[Len(stack) - 1], Top(stack))))
    /\ UNCHANGED <<field_values, set_call, functions, expr, bytecode,
                 schema_vars, input, runs, registered>>

ExecLogical ==
    /\ AtInstruction({"LogicalAnd", "LogicalOr"})
    /\ IF Len(stack) < 2
       THEN Halt(Panic)
       ELSE Push(Pop(stack, 2),
                 VBool(LogicalResult(Fetch, stack[Len(stack) - 1], Top(stack))))
    /\ UNCHANGED <<field_values, set_call, functions, expr, bytecode,
                 schema_vars, input, runs, registered>>

ExecLogicalNot ==
    /\ AtInstruction({"LogicalNot"})
    /\ IF Len(stack) < 1
       THEN Halt(Panic)
       ELSE Push(Pop(stack, 1), VBool(~to_bool(Top(stack))))
    /\ UNCHANGED <<field_values, set_call, functions, expr, bytecode,
                 schema_vars, input, runs, registered>>

\* the match on stack.pop() after the loop
ExecFinish ==
    /\ phase = "exec"
    /\ pc = Len(bytecode)
    /\ IF Len(stack) = 0
       THEN /\ result' = Err("ExecutionError")
            /\ stack' = stack
       ELSE /\ result' = Ok(to_bool(Top(stack)))
            /\ stack' = Pop(stack, 1)
    /\ phase' = "done"
    /\ UNCHANGED <<field_values, set_call, functions, expr, bytecode, pc,
                 schema_vars, input, runs, registered>>

Next ==
    \/ ContextSet
    \/ BuilderSet
    \/ RegisterBuiltins
    \/ RegisterFn
    \/ Compile
    \/ ExecLoadField
    \/ ExecLoadLiteral
    \/ ExecCallFunction
    \/ ExecCompare
    \/ ExecLogical
    \/ ExecLogicalNot
    \/ ExecFinish

Spec == Init /\ [][Next]_vars

(***************************************************************************)
(* The texts handed to FilterParser::parse.                                *)
(***************************************************************************)
\* a text with the tree it stands for and the level of its top operator:
\* 0 for or, 1 for and, 2 for not, 3 for a comparison or an operand
Leaf(text, tree) == [text |-> text, tree |-> tree, level |-> 3]
Ident(name) == Value(VBytes(into_bytes(name)))
Parens(x) == <<"(">> \o x.text \o <<")">>

\* `not x`, x in parentheses when its top operator is or / and
NotText(x) ==
    [text |-> <<"n", "o", "t", " ">> \o (IF x.level < 2 THEN Parens(x) ELSE x.text),
     tree |-> Not(x.tree), level |-> 2]

\* `x || y` and `x && y` in either spelling: the left operand is in parentheses
\* when its operator binds less, the right one when it does not bind more
OrText(x, y, word) ==
    [text |-> x.text \o (IF word THEN <<" ", "o", "r", " ">> ELSE <<" ", "|", "|", " ">>)
                     \o (IF y.level <= 0 THEN Parens(y) ELSE y.text),
     tree |-> LogicalOp("Or", x.tree, y.tree), level |-> 0]
AndText(x, y, word) ==
    [text |-> (IF x.level < 1 THEN Parens(x) ELSE x.text)
                     \o (IF word THEN <<" ", "a", "n", "d", " ">> ELSE <<" ", "&", "&", " ">>)
                     \o (IF y.level <= 1 THEN Parens(y) ELSE y.text),
     tree |-> LogicalOp("And", x.tree, y.tree), level |-> 1]

LogicAtoms ==
    {Leaf(<<"a">>, Ident(<<"a">>)),
     Leaf(<<"f", "o", "o">>, Ident(<<"f", "o", "o">>)),
     Leaf(<<"c", " ", "=", "=", " ", "0">>, Comparison(Ident(<<"c">>), "Eq", Value(VInt(0))))}

\* the logical expressions with one operator, then with up to three
LogicTexts1(word) ==
    LogicAtoms
    \cup {NotText(x) : x \in LogicAtoms}
    \cup {OrText(x, y, word) : x \in LogicAtoms, y \in LogicAtoms}
    \cup {AndText(x, y, word) : x \in LogicAtoms, y \in LogicAtoms}
LogicTexts2(word) ==
    LogicTexts1(word)
    \cup {NotText(x) : x \in LogicTexts1(word)}
    \cup {OrText(x, y, word) : x \in LogicTexts1(word), y \in LogicTexts1(word)}
    \cup {AndText(x, y, word) : x \in LogicTexts1(word), y \in LogicTexts1(word)}
LogicTexts == LogicTexts2(FALSE) \cup LogicTexts2(TRUE)

\* a comparison with a parenthesized group on its right, alone and as the left
\* operand of a logical operator
GroupOnRight ==
    Leaf(<<"c", " ", "=", "=", " ", "(", "f", "o", "o", ")">>,
         Comparison(Ident(<<"c">>), "Eq", Ident(<<"f", "o", "o">>)))
GroupTexts ==
    {GroupOnRight}
    \cup {AndText(GroupOnRight, x, word) : x \in LogicAtoms, word \in BOOLEAN}
    \cup {OrText(GroupOnRight, x, word) : x \in LogicAtoms, word \in BOOLEAN}

\* right-hand sides: an identifier, an integer, a string, a list
RhsTexts ==
    {Leaf(<<"y">>, Ident(<<"y">>)),
     Leaf(<<"1">>, Value(VInt(1))),
     Leaf(<<"\"", "b", "*", "\"">>, Value(VBytes(<<98, 42>>))),
     Leaf(<<"{", "1", " ", "2", "}">>, Value(VArray(<<VInt(1), VInt(2)>>)))}

\* foo <operator> rhs for every entry of the operator table, with and without
\* blanks around the operator
OperatorTexts ==
    {<<"f", "o", "o">> \o gap \o OperatorTable[i].tok \o gap \o r.text :
        i \in 1..Len(OperatorTable), r \in RhsTexts, gap \in {<<>>, <<" ">>}}

\* identifiers, some of them beginning with a keyword or holding one
IdentifierNames ==
    {<<"x">>,
     <<"f", "o", "o">>,
     <<"f", "o", "o", ".", "b", "a", "r">>,
     <<"_", "x">>,
     <<"x", "1">>,
     <<"p", "o", "r", "t">>,
     <<"n", "o", "t", "x">>,
     <<"i", "n", "x">>,
     <<"o", "r", "x">>,
     <<"a", "n", "d", "x">>,
     <<"t", "r", "u", "e", "x">>,
     <<"f", "a", "l", "s", "e", "x">>,
     <<"n", "o", "t", "a">>,
     <<"i", "n", "d", "e", "x">>,
     <<"o", "r", "d", "e", "r">>}

\* an identifier alone, on the left of a comparison and on its right
IdentifierTexts ==
    IdentifierNames
    \cup {n \o <<" ", "=", "=", " ", "1">> : n \in IdentifierNames}
    \cup {<<"f", "o", "o", " ", "=", "=", " ">> \o n : n \in IdentifierNames}

\* function calls, alone and on the right of a comparison
CallTexts ==
    {<<"f", "(", ")">>,
     <<"l", "e", "n", "(", "a", "r", "r", ")">>,
     <<"f", "(", "x", ",", " ", "y", ")">>,
     <<"f", "(", "4", "2", ")">>,
     <<"f", "(", "t", "r", "u", "e", ")">>,
     <<"f", "(", "\"", "s", "\"", ")">>,
     <<"f", "(", "-", "1", ")">>,
     <<"u", "p", "p", "e", "r", "(", "l", "o", "w", "e", "r", "(", "x", ")", ")">>,
     <<"f", "(", "x", " ", "=", "=", " ", "1", ")">>,
     <<"f", "(", "(", "x", ")", ")">>,
     <<"l", "e", "n", " ", "(", "a", "r", "r", ")", " ", "=", "=", " ", "1">>,
     <<"f", "o", "o", " ", "=", "=", " ", "l", "e", "n", "(", "a", "r", "r", ")">>,
     <<"p", "o", "r", "t", " ", "=", "=", " ", "l", "e", "n", "(", "t", "a", "g", "s", ")">>,
     <<"f", "(", "x", ",", ")">>,
     <<"f", "(", "x">>}

\* texts with something after the expression, and texts that are no expression
OtherTexts ==
    {<<>>,
     <<" ">>,
     <<"a", " ">>,
     <<" ", "a">>,
     <<"a", " ", "b">>,
     <<"a", " ", "=", "=", " ", "1", " ", "b">>,
     <<"a", " ", "=", "=", " ", "1", " ", "2">>,
     <<"a", " ", ")">>,
     <<"(", "a">>,
     <<"(", "(", "a", ")", ")">>,
     <<"(", "a", ")", " ", "=", "=", " ", "1">>,
     <<"a", " ", "=", "=", " ", "(", "b", ")">>,
     <<"a", " ", "=", "=", " ", "(", "b", ")", " ", "&", "&", " ", "c">>,
     <<"f", "(", "x", ")", " ", "y">>,
     <<"a", " ", "=", "=">>,
     <<"a", " ", "=", "=", " ", "1", " ", " ">>,
     <<"{", "1", "}">>,
     <<"a", " ", "i", "n", " ", "{", "1", ",", " ", "2", "}">>,
     <<"a", " ", "i", "n", " ", "{", "}">>,
     <<"a", " ", "=", "=", " ", "\"", "s">>,
     <<"a", " ", "=", "=", " ", "-">>,
     <<"a", " ", "=", "=", " ", "-", "5">>,
     <<"a", " ", "|", "|", " ">>,
     <<"n", "o", "t">>,
     <<"a", " ", "=", "=", " ", "t", "r", "u", "e">>,
     <<"x", " ", "=", "=", " ", "f", "a", "l", "s", "e">>}

\* integer literals with the value str::parse::<i64> gives them: None for those
\* outside the range of i64 (9223372036854775808 is i64::MAX + 1)
IntegerLiterals ==
    {[digits |-> <<"0">>,
      val |-> Some(0)],
     [digits |-> <<"7">>,
      val |-> Some(7)],
     [digits |-> <<"4", "2">>,
      val |-> Some(42)],
     [digits |-> <<"0", "0", "7">>,
      val |-> Some(7)],
     [digits |-> <<"-", "5">>,
      val |-> Some(0 - 5)],
     [digits |-> <<"-", "0">>,
      val |-> Some(0)],
     [digits |-> <<"2", "1", "4", "7", "4", "8", "3", "6", "4", "7">>,
      val |-> Some(2147483647)],
     [digits |-> <<"-", "2", "1", "4", "7", "4", "8", "3", "6", "4", "7">>,
      val |-> Some(0 - 2147483647)],
     [digits |-> <<"9", "2", "2", "3", "3", "7", "2", "0", "3", "6", "8", "5", "4", "7", "7", "5", "8", "0", "8">>,
      val |-> None],
     [digits |-> <<"9", "9", "9", "9", "9", "9", "9", "9", "9", "9", "9", "9", "9", "9", "9", "9", "9", "9", "9", "9">>,
      val |-> None],
     [digits |-> <<"-", "9", "2", "2", "3", "3", "7", "2", "0", "3", "6", "8", "5", "4", "7", "7", "5", "8", "0", "9">>,
      val |-> None],
     [digits |-> <<"-", "9", "9", "9", "9", "9", "9", "9", "9", "9", "9", "9", "9", "9", "9", "9", "9", "9", "9", "9", "9">>,
      val |-> None]}

\* a == <integer literal>
IntegerText(lit) == <<"a", " ", "=", "=", " ">> \o lit.digits
IntegerTexts == {IntegerText(lit) : lit \in IntegerLiterals}

Texts ==
    {x.text : x \in LogicTexts \cup GroupTexts} \cup OperatorTexts \cup IdentifierTexts \cup CallTexts
    \cup OtherTexts \cup IntegerTexts

(***************************************************************************)
(* Parsing a text, compiling the tree and running it.                      *)
(***************************************************************************)
\* FilterParser::parse(text, &schema)
Parse ==
    /\ phase = "build"
    /\ \E text \in Texts :
          LET r == parse(text)
          IN /\ input' = text
             /\ IF IsOk(r)
                THEN expr' = r.ok /\ phase' = "parsed" /\ result' = result
                ELSE expr' = expr /\ phase' = "done" /\ result' = r
    /\ UNCHANGED <<field_values, set_call, functions, bytecode, pc, stack, schema_vars, runs,
                   registered>>

\* CompiledFilter::new on the parsed expression, and the entry of execute
CompileParsed ==
    /\ phase = "parsed"
    /\ bytecode' = compile_ir(expr, schema, functions)
    /\ pc' = 0
    /\ stack' = <<>>
    /\ phase' = "exec"
    /\ UNCHANGED <<field_values, set_call, functions, expr, result, schema_vars, input, runs, registered>>

NextParser ==
    \/ RegisterBuiltins
    \/ Parse
    \/ CompileParsed
    \/ ExecLoadField
    \/ ExecLoadLiteral
    \/ ExecCallFunction
    \/ ExecCompare
    \/ ExecLogical
    \/ ExecLogicalNot
    \/ ExecFinish

ParserSpec == Init /\ [][NextParser]_vars

(***************************************************************************)
(* The schema builder: field() calls in any order, with any of the names   *)
(* repeated, then build().                                                 *)
(***************************************************************************)
engine_vars == <<field_values, set_call, functions, expr, bytecode, pc, stack, result, phase>>

FieldNames == {foo, bar, ba, arr}
FieldTypes == {TInt, TBytes, TArray(TInt)}

\* builder.field(name, ty)
BuilderField ==
    /\ built = None
    /\ Len(field_calls) < MaxFieldCalls
    /\ \E name \in FieldNames, ty \in FieldTypes :
          /\ builder_fields' = builder_field(builder_fields, name, ty)
          /\ field_calls' = Append(field_calls, [name |-> name, ty |-> ty])
    /\ UNCHANGED <<built, engine_vars, input, runs, registered>>

\* builder.build()
BuilderBuild ==
    /\ built = None
    /\ built' = Some(SchemaBuild(builder_fields))
    /\ UNCHANGED <<builder_fields, field_calls, engine_vars, input, runs, registered>>

NextSchema == BuilderField \/ BuilderBuild

SchemaSpec == Init /\ [][NextSchema]_vars

(***************************************************************************)
(* Expression trees built through the FilterExpr API over values of every  *)
(* kind, compiled and run against the empty context.                       *)
(***************************************************************************)
\* a byte string that is not UTF-8
not_utf8 == <<102, 255>>

\* values of every kind: Bool, Int, Bytes (empty, a field name, another text,
\* not UTF-8), Ip, Array and Map (empty and not)
AllKinds ==
    {VBool(TRUE), VBool(FALSE), VInt(0), VInt(1), VInt(-1),
     VBytes(<<>>), VBytes(baz), VBytes(foo), VBytes(bar), VBytes(not_utf8),
     VIp(localhost),
     VArray(<<>>), VArray(<<VBytes(foo)>>), VArray(<<VInt(0)>>),
     VMap(EmptyMap), VMap([k \in {foo} |-> VInt(0)])}

ValueExprs ==
    {Value(v) : v \in AllKinds}
    \cup {Not(Value(v)) : v \in AllKinds}
    \cup {LogicalOp(op, Value(v), Value(w)) : op \in {"And", "Or"}, v \in AllKinds, w \in AllKinds}
    \cup {Comparison(Value(v), "Eq", Value(w)) : v \in AllKinds, w \in AllKinds}
    \cup {List(<<v>>) : v \in AllKinds}
    \cup {FunctionCall("always_true", <<Value(v), Value(w)>>) :
             v \in {VBytes(foo), VBytes(baz)}, w \in AllKinds}

\* DefaultCompiler::compile on a tree over values of every kind, and the entry
\* of execute
CompileValues ==
    /\ phase = "build"
    /\ \E ex \in ValueExprs :
          /\ expr' = ex
          /\ bytecode' = compile_ir(ex, schema, functions)
    /\ pc' = 0
    /\ stack' = <<>>
    /\ phase' = "exec"
    /\ UNCHANGED <<field_values, set_call, functions, result, schema_vars, input, runs, registered>>

NextValues ==
    \/ RegisterFn
    \/ CompileValues
    \/ ExecLoadField
    \/ ExecLoadLiteral
    \/ ExecCallFunction
    \/ ExecCompare
    \/ ExecLogical
    \/ ExecLogicalNot
    \/ ExecFinish

ValueSpec == Init /\ [][NextValues]_vars

(***************************************************************************)
(* Wildcard comparisons: bar is set to a subject, and bar wildcard pattern *)
(* or bar strict wildcard pattern is compiled and run.                     *)
(***************************************************************************)
\* the byte strings of up to n bytes over an alphabet
BytesUpTo(alphabet, n) == UNION {[1..k -> alphabet] : k \in 0..n}

\* subjects over a, A and b; patterns over them and `*`; then "AΣB" and "AΣ*"
\* with the capital sigma, the lone final and small sigma, and bytes that are
\* not UTF-8
Subjects ==
    BytesUpTo({97, 65, 98}, MaxGlobLen)
    \cup {<<65, 206, 163, 66>>, <<207, 130>>, <<207, 131>>, <<255>>, <<97, 255>>}
Patterns ==
    BytesUpTo({97, 65, 42}, MaxGlobLen)
    \cup {<<65, 206, 163, 42>>, <<206, 163>>, <<207, 131>>, <<42, 255>>}

\* ctx.set("bar", LiteralValue::Bytes(subject), &schema)
SetSubject ==
    /\ phase = "build"
    /\ set_call.n = 0
    /\ \E s \in Subjects :
          LET r == set(field_values, bar, VBytes(s), schema)
          IN /\ field_values' = r.fv
             /\ set_call' = [n |-> 1, field |-> bar, value |-> VBytes(s), res |-> r.res,
                             via |-> "set", reported |-> r.res]
    /\ UNCHANGED <<functions, expr, bytecode, pc, stack, result, phase, schema_vars, input, runs, registered>>

\* DefaultCompiler::compile on bar wildcard pattern / bar strict wildcard pattern
CompileWildcard ==
    /\ phase = "build"
    /\ set_call.n = 1
    /\ \E p \in Patterns, op \in {"Wildcard", "StrictWildcard"} :
          LET ex == Comparison(Value(VBytes(bar)), op, Value(VBytes(p)))
          IN /\ expr' = ex
             /\ bytecode' = compile_ir(ex, schema, functions)
    /\ pc' = 0
    /\ stack' = <<>>
    /\ set_call' = NoSetCall
    /\ phase' = "exec"
    /\ UNCHANGED <<field_values, functions, result, schema_vars, input, runs, registered>>

NextWildcard ==
    \/ SetSubject
    \/ CompileWildcard
    \/ ExecLoadField
    \/ ExecLoadLiteral
    \/ ExecCompare
    \/ ExecFinish

WildcardSpec == Init /\ [][NextWildcard]_vars

(***************************************************************************)
(* One compiled filter shared by several threads, each calling execute on  *)
(* a context of its own; the calls interleave instruction by instruction.  *)
(***************************************************************************)
\* the contexts the threads execute against
SharedContexts ==
    {<<>>,
     set(<<>>, foo, VInt(1), schema).fv,
     set(<<>>, bar, VBytes(baz), schema).fv,
     set(set(<<>>, foo, VInt(1), schema).fv, arr, VArray(<<VInt(1)>>), schema).fv}

SharedExprs ==
    {Comparison(Value(VBytes(foo)), "Eq", Value(VInt(1))),
     Not(Value(VBytes(foo))),
     Comparison(FunctionCall("len", <<Value(VBytes(arr))>>), "Eq", Value(VInt(1))),
     Comparison(FunctionCall("upper", <<Value(VBytes(bar))>>), "Eq", Value(VBytes(<<66, 65, 90>>))),
     LogicalOp("And", Comparison(Value(VBytes(foo)), "Eq", Value(VInt(1))),
                      Comparison(Value(VBytes(bar)), "Neq", Value(VBytes(baz)))),
     LogicalOp("Or", Value(VBytes(bar)), FunctionCall("always_true", <<Value(VBytes(foo))>>)),
     FunctionCall("missing_fn", <<Value(VBytes(foo))>>)}

\* CompiledFilter::new, the filter then shared behind an Arc
CompileShared ==
    /\ phase = "build"
    /\ \E ex \in SharedExprs :
          /\ expr' = ex
          /\ bytecode' = compile_ir(ex, schema, functions)
    /\ phase' = "shared"
    /\ UNCHANGED <<field_values, set_call, functions, pc, stack, result, schema_vars,
                   input, runs, registered>>

\* a thread calls filter.execute(&ctx) on its own context
StartExecute(t) ==
    /\ phase = "shared"
    /\ runs[t].phase \in {"idle", "done"}
    /\ \E ctx \in SharedContexts : runs' = [runs EXCEPT ![t] = EntryState(runs[t], ctx)]
    /\ UNCHANGED <<field_values, set_call, functions, expr, bytecode, pc, stack, result,
                   phase, schema_vars, input, registered>>

\* the thread runs one instruction, or returns
StepExecute(t) ==
    /\ phase = "shared"
    /\ runs[t].phase = "exec"
    /\ runs' = [runs EXCEPT ![t] = ExecStep(bytecode, functions, runs[t])]
    /\ UNCHANGED <<field_values, set_call, functions, expr, bytecode, pc, stack, result,
                   phase, schema_vars, input, registered>>

NextParallel ==
    \/ RegisterBuiltins
    \/ RegisterFn
    \/ CompileShared
    \/ \E t \in Threads : StartExecute(t)
    \/ \E t \in Threads : StepExecute(t)

ParallelSpec == Init /\ [][NextParallel]_vars

(***************************************************************************)
(* A registry filled by register / register_fn calls under built-in and    *)
(* other names, with built-in and other callables, a name possibly more    *)
(* than once; then a call of one of the names is compiled and run.         *)
(***************************************************************************)
BuiltinNames == {"len", "upper", "lower", "sum", "starts_with", "ends_with"}

RegNames == BuiltinNames \cup {"always_true"}

\* a built-in struct, and the closure |_args| Some(LiteralValue::Bool(true))
RegCallables == {"LenFunction", "AlwaysTrue"}

\* argument lists of the compiled call: an array, and two byte strings
RegArgs == {<<VArray(<<VInt(1)>>)>>, <<VBytes(baz), VBytes(ba)>>}

\* functions.register(name, func), or register_fn, which wraps the closure and
\* calls register
Register ==
    /\ phase = "build"
    /\ Len(registered) < MaxRegisters
    /\ \E name \in RegNames, func \in RegCallables :
          /\ functions' = register(functions, name, func)
          /\ registered' = Append(registered, <<name, func>>)
    /\ UNCHANGED <<field_values, set_call, expr, bytecode, pc, stack, result, phase,
                   schema_vars, input, runs>>

\* a call of a name with literal arguments is compiled against the registry
CompileRegistered ==
    /\ phase = "build"
    /\ \E name \in RegNames, args \in RegArgs :
          LET ex == FunctionCall(name, [i \in 1..Len(args) |-> Value(args[i])])
          IN /\ expr' = ex
             /\ bytecode' = compile_ir(ex, schema, functions)
    /\ pc' = 0
    /\ stack' = <<>>
    /\ phase' = "exec"
    /\ UNCHANGED <<field_values, set_call, functions, result, schema_vars, input, runs,
                   registered>>

NextRegistry ==
    \/ Register
    \/ CompileRegistered
    \/ ExecLoadLiteral
    \/ ExecCallFunction
    \/ ExecFinish

RegistrySpec == Init /\ [][NextRegistry]_vars

(***************************************************************************)
(* sum called on arrays of integers near the ends of the range of i64 and  *)
(* of values of other kinds.                                               *)
(***************************************************************************)
SumElements == {VInt(I64_MAX), VInt(I64_MIN), VInt(1), VInt(0 - 1), VBytes(baz), VBool(TRUE)}

RECURSIVE SeqsUpTo(_, _)
SeqsUpTo(elems, n) ==
    IF n = 0 THEN {<<>>}
    ELSE SeqsUpTo(elems, n - 1)
         \cup {Append(s, e) : s \in {x \in SeqsUpTo(elems, n - 1) : Len(x) = n - 1}, e \in elems}

SumArrays == SeqsUpTo(SumElements, MaxSumLen)

\* functions.register("total", SumFunction)
RegisterSumFunction ==
    /\ phase = "build"
    /\ functions' = register(functions, "total", "SumFunction")
    /\ UNCHANGED <<field_values, set_call, expr, bytecode, pc, stack, result, phase,
                   schema_vars, input, runs, registered>>

\* sum(array) or total(array) is compiled
CompileSum ==
    /\ phase = "build"
    /\ \E name \in {"sum", "total"}, array \in SumArrays :
          LET ex == FunctionCall(name, <<Value(VArray(array))>>)
          IN /\ expr' = ex
             /\ bytecode' = compile_ir(ex, schema, functions)
    /\ pc' = 0
    /\ stack' = <<>>
    /\ phase' = "exec"
    /\ UNCHANGED <<field_values, set_call, functions, result, schema_vars, input, runs,
                   registered>>

NextSum ==
    \/ RegisterBuiltins
    \/ RegisterSumFunction
    \/ CompileSum
    \/ ExecLoadLiteral
    \/ ExecCallFunction
    \/ ExecFinish

SumSpec == Init /\ [][NextSum]_vars

(***************************************************************************)
(* Vocabulary of the properties.                                           *)
(***************************************************************************)
Finished == phase = "done"

\* x is an operand that the compiler turns into a load of a schema field
IsFieldRef(x) ==
    x.e = "Value" /\ x.val.t = "Bytes" /\ IsUtf8(x.val.v) /\ x.val.v \in DOMAIN schema.fields
FieldRefId(x) == schema.field_ids[x.val.v]
\* a field reference whose slot is unset in the context
IsUnsetFieldRef(x) ==
    IsFieldRef(x) /\ (FieldRefId(x) >= Len(field_values) \/ field_values[FieldRefId(x) + 1] = None)
\* the value of an operand that is a literal or a field that is set
SetOperandValue(x) == IF IsFieldRef(x) THEN field_values[FieldRefId(x) + 1][1] ELSE x.val
\* the value of a literal or field operand, an unset field counting as Bool(false)
OperandValue(x) == IF IsUnsetFieldRef(x) THEN VBool(FALSE) ELSE SetOperandValue(x)

IsFalse(val) == val.t = "Bool" /\ val.v = FALSE
HoldsFalse(val) == val.t = "Array" /\ \E i \in 1..Len(val.v) : IsFalse(val.v[i])

\* a finished run of a comparison of two literal or field operands
LeafComparisonDone ==
    Finished /\ expr.e = "Comparison" /\ expr.left.e = "Value" /\ expr.right.e = "Value"

Registered(name) == name \in DOMAIN functions.function_ids

(***************************************************************************)
(* C1.  With a registry holding only always_true, executing the filter     *)
(* compiled from always_true() || missing_fn() returns Ok(true): the       *)
(* unknown function on the right of || does not make the evaluation fail.  *)
(***************************************************************************)
C1_Expr == LogicalOp("Or", FunctionCall("always_true", <<>>), FunctionCall("missing_fn", <<>>))

\* C1: the run of always_true() || missing_fn() with only always_true registered
\* ends in Ok(true)
C1_ShortCircuitOr ==
    (/\ Finished
     /\ expr = C1_Expr
     /\ functions = register(EmptyRegistry, "always_true", "AlwaysTrue"))
    => result = Ok(TRUE)

(***************************************************************************)
(* C2.  execute never pops or splits from a stack that holds fewer values  *)
(* than the instruction needs, and always ends with Ok(bool) or a typed    *)
(* Err.                                                                    *)
(***************************************************************************)
Needs(ins) ==
    CASE ins.op \in {"LoadField", "LoadLiteral"} -> 0
      [] ins.op = "CallFunction" -> ins.argc
      [] ins.op = "LogicalNot" -> 1
      [] OTHER -> 2

C3_OneValueAtEnd == (phase = "exec" /\ pc = Len(bytecode)) => Len(stack) = 1

(***************************************************************************)
(* C4.  As claimed: a comparison in which one operand is a schema field    *)
(* that is unset in the context evaluates to false, for every operator and *)
(* every other operand.                                                    *)
(***************************************************************************)
C4_Case == LeafComparisonDone /\ (IsUnsetFieldRef(expr.left) \/ IsUnsetFieldRef(expr.right))

C4_EqExpected == IsFalse(OperandValue(expr.left)) /\ IsFalse(OperandValue(expr.right))
C4_InExpected == IsUnsetFieldRef(expr.left) /\ HoldsFalse(OperandValue(expr.right))
C4_ContainsExpected == IsUnsetFieldRef(expr.right) /\ HoldsFalse(OperandValue(expr.left))

C4_Expected ==
    CASE expr.op = "Eq" -> C4_EqExpected
      [] expr.op = "Neq" -> ~C4_EqExpected
      [] expr.op = "In" -> C4_InExpected
      [] expr.op = "NotIn" -> ~C4_InExpected
      [] expr.op = "Contains" -> C4_ContainsExpected
      [] OTHER -> FALSE

C5_ArgKinds(name) ==
    CASE name \in {"len", "sum"} -> <<"Array">>
      [] name \in {"upper", "lower"} -> <<"Bytes">>
      [] name \in {"starts_with", "ends_with"} -> <<"Bytes", "Bytes">>
      [] OTHER -> <<>>

C5_WellTypedBuiltinCall ==
    /\ expr.e = "FunctionCall"
    /\ IsSome(from_name(expr.name))
    /\ Registered(expr.name)
    /\ Len(expr.args) = Len(C5_ArgKinds(expr.name))
    /\ \A i \in 1..Len(expr.args) :
          /\ IsFieldRef(expr.args[i])
          /\ Head(schema.fields[expr.args[i].val.v]) = C5_ArgKinds(expr.name)[i]

\* C5: a built-in called on schema fields of the kinds of its signature returns
\* Ok on the empty context
C5_EmptyContextNoError ==
    (Finished /\ field_values = <<>> /\ C5_WellTypedBuiltinCall) => IsOk(result)

(***************************************************************************)
(* C6.  As claimed: for every comparison operator and every pair of        *)
(* operand values whose kinds are incompatible for that operator, the      *)
(* comparison evaluates to false and raises no error.                      *)
(***************************************************************************)
Incompatible(op, l, r) ==
    CASE op \in {"Eq", "Neq"} -> l.t # r.t
      [] op \in {"Lt", "Lte", "Gt", "Gte"} -> ~(l.t = "Int" /\ r.t = "Int")
      [] op \in {"In", "NotIn"} -> r.t # "Array"
      [] op \in {"Matches", "Wildcard", "StrictWildcard"} -> ~(l.t = "Bytes" /\ r.t = "Bytes")
      [] op = "Contains" -> ~(l.t = "Bytes" /\ r.t = "Bytes") /\ l.t # "Array"

C6_Case ==
    /\ LeafComparisonDone
    /\ Incompatible(expr.op, OperandValue(expr.left), OperandValue(expr.right))

\* C6 as claimed: a comparison of incompatible kinds is false and no error
C6_IncompatibleKindsFalse == C6_Case => result = Ok(FALSE)

\* C6 as amended: no error is raised; the comparison is false for every operator
\* but != and not in, which are the negations of == and in and evaluate to true.
C6_IncompatibleKindsNoError == C6_Case => result = Ok(expr.op \in {"Neq", "NotIn"})

\* foo < "baz" with foo = Int(1) came out false
C6_Witness ==
    /\ C6_Case
    /\ expr.op = "Lt"
    /\ ~IsUnsetFieldRef(expr.left)
    /\ OperandValue(expr.left).t = "Int"
    /\ OperandValue(expr.right).t = "Bytes"
    /\ result = Ok(FALSE)

(***************************************************************************)
(* C7.  Compiling a call to a name that is not in the registry succeeds    *)
(* and emits CallFunction with the id MAX, and every execution that        *)
(* reaches that instruction returns Err(FunctionError), whatever the       *)
(* context and the arguments: no run gets past it.                         *)
(***************************************************************************)
IsMaxCall(ins) == ins.op = "CallFunction" /\ ins.fid = USIZE_MAX

\* C7: an unregistered name compiles to CallFunction(MAX, argc); no run gets past
\* such an instruction, and the run that reaches it ends in Err(FunctionError)
C7_UnknownFunctionErrors ==
    /\ (phase # "build" /\ expr.e = "FunctionCall" /\ ~Registered(expr.name)) =>
          /\ Len(bytecode) > 0
          /\ IsMaxCall(bytecode[Len(bytecode)])
    /\ \A i \in 1..pc : ~IsMaxCall(bytecode[i])
    /\ (Finished /\ pc < Len(bytecode) /\ IsMaxCall(Fetch)) => result = Err("FunctionError")

\* missing_fn(..) with arguments, on a context that holds a value, ended in
\* Err(FunctionError)
C7_Witness ==
    /\ Finished
    /\ expr.e = "FunctionCall"
    /\ expr.name = "missing_fn"
    /\ Len(expr.args) > 0
    /\ field_values # <<>>
    /\ pc < Len(bytecode)
    /\ IsMaxCall(Fetch)
    /\ result = Err("FunctionError")

(***************************************************************************)
(* C8.  A call to a built-in with a number of arguments different from its *)
(* signature, too few or too many, returns Err(FunctionError) at           *)
(* evaluation.                                                             *)
(***************************************************************************)
C8_Arity(name) == IF name \in {"starts_with", "ends_with"} THEN 2 ELSE 1

\* C8: a registered built-in called with a wrong number of arguments ends in
\* Err(FunctionError)
C8_ArityMismatchErrors ==
    (/\ Finished
     /\ expr.e = "FunctionCall"
     /\ IsSome(from_name(expr.name))
     /\ Registered(expr.name)
     /\ Len(expr.args) # C8_Arity(expr.name))
    => result = Err("FunctionError")

(***************************************************************************)
(* C9.  FilterContext::set returns Err(TypeError) whenever the inferred    *)
(* type of the value differs from the declared type of the field, the only *)
(* accepted difference being an empty array written to an Array(T) field:  *)
(* a non-empty array whose elements are not all of type T is rejected.     *)
(***************************************************************************)
SetMade == set_call.res # "None"

\* C9: a set whose value is neither of the declared type nor an empty array for
\* an Array(T) field returns Err(TypeError)
C9_SetTypeChecked ==
    (SetMade /\ set_call.field \in DOMAIN schema.fields) =>
        LET declared == schema.fields[set_call.field]
            accepted == \/ get_type(set_call.value) = declared
                        \/ /\ Head(declared) = "Array"
                           /\ set_call.value.t = "Array"
                           /\ Len(set_call.value.v) = 0
        IN ~accepted => set_call.res = "TypeError"

(***************************************************************************)
(* C10.  FilterContext::set with a field name that is not in the schema    *)
(* returns Err(FieldNotFound), and any set that returns an error leaves    *)
(* every slot of the context as it was before the call.                    *)
(***************************************************************************)
C10_FailedSetLeavesContext ==
    [][(set_call'.n = set_call.n + 1) =>
          /\ (set_call'.field \notin DOMAIN schema.fields) <=> (set_call'.res = "FieldNotFound")
          /\ (set_call'.res # "Ok") => (field_values' = field_values)]_vars

\* a set of an unregistered field, and a set of a mistyped value, each made on
\* a context that already holds a value
C10_Witness ==
    /\ set_call.n = MaxSets
    /\ set_call.res \in {"FieldNotFound", "TypeError"}
    /\ \E i \in 1..Len(field_values) : IsSome(field_values[i])

(***************************************************************************)
(* C11.  The typed setters of FilterContextBuilder return an Err when the  *)
(* named field is not in the schema or its declared type differs from the  *)
(* type of the value: a rejected write is never reported as Ok.            *)
(***************************************************************************)
C11_BuilderReportsRejection ==
    (set_call.via = "builder" /\ set_call.res # "Ok") => set_call.reported # "Ok"

(***************************************************************************)
(* C12.  For every schema built with N distinct names, the field ids are   *)
(* exactly 0..N-1, field_id(field_name(i)) = Some(i) for every i < N,      *)
(* field_name(field_id(n)) = Some(n) for every registered name n, and      *)
(* every registered name has exactly one type.                             *)
(***************************************************************************)
CalledNames == {field_calls[i].name : i \in 1..Len(field_calls)}

C12_IdsAreBijection ==
    IsSome(built) =>
        LET sch == Unwrap(built)
            N == Cardinality(CalledNames)
        IN /\ num_fields(sch) = N
           /\ DOMAIN sch.field_ids = CalledNames
           /\ {sch.field_ids[n] : n \in CalledNames} = 0..(N - 1)
           /\ \A i \in 0..(N - 1) :
                 /\ IsSome(field_name(sch, i))
                 /\ field_id(sch, Unwrap(field_name(sch, i))) = Some(i)
           /\ field_name(sch, N) = None
           /\ \A n \in CalledNames :
                 /\ IsSome(field_id(sch, n))
                 /\ field_name(sch, Unwrap(field_id(sch, n))) = Some(n)
                 /\ IsSome(get_field_type(sch, n))
                 /\ Unwrap(get_field_type(sch, n)) \in FieldTypes
           /\ \A n \in FieldNames \ CalledNames :
                 field_id(sch, n) = None /\ get_field_type(sch, n) = None

\* a schema built after three calls, one of them repeating a name
C12_Witness ==
    /\ IsSome(built)
    /\ Len(field_calls) = MaxFieldCalls
    /\ Cardinality(CalledNames) = MaxFieldCalls - 1

(***************************************************************************)
(* C13.  Two schemas built from the same set of field names assign the     *)
(* same id to every name, whatever the order of the field() calls; ids     *)
(* follow the lexicographic order of the names, so a context filled        *)
(* through one schema instance is read correctly by a filter compiled with *)
(* another instance built from the same names.                             *)
(***************************************************************************)
\* a before b in the lexicographic order of the bytes
LexLess(a, b) ==
    \E k \in 0..Len(a) :
        /\ k <= Len(b)
        /\ \A i \in 1..k : a[i] = b[i]
        /\ IF k = Len(a) THEN k < Len(b) ELSE k < Len(b) /\ a[k + 1] < b[k + 1]

\* the builder after the calls of field_calls made in the order p
RECURSIVE FieldsAfter(_, _, _)
FieldsAfter(calls, p, k) ==
    IF k = 0 THEN SchemaBuilderNew
    ELSE builder_field(FieldsAfter(calls, p, k - 1), calls[p[k]].name, calls[p[k]].ty)

\* the schemas built from the same calls made in every order
Reordered ==
    {SchemaBuild(FieldsAfter(field_calls, p, Len(field_calls))) :
        p \in Permutations(1..Len(field_calls))}

ValueOf(ty) ==
    IF ty = TInt THEN VInt(1) ELSE IF ty = TBytes THEN VBytes(baz) ELSE VArray(<<VInt(1)>>)

C13_IdsFollowNameOrder ==
    IsSome(built) =>
        LET sch == Unwrap(built)
        IN /\ \A a \in CalledNames, b \in CalledNames :
                 LexLess(a, b) <=> sch.field_ids[a] < sch.field_ids[b]
           /\ \A other \in Reordered :
                 /\ other.field_ids = sch.field_ids
                 /\ other.field_names = sch.field_names
                 /\ \A n \in CalledNames :
                       LET v == ValueOf(sch.fields[n])
                           filled == set(<<>>, n, v, sch)
                       IN /\ filled.res = "Ok"
                          /\ get_by_id(filled.fv, Unwrap(field_id(other, n))) = Some(v)

\* three names registered in descending order, one a prefix of another
C13_Witness ==
    /\ IsSome(built)
    /\ Len(field_calls) = 3
    /\ field_calls[1].name = foo
    /\ field_calls[2].name = bar
    /\ field_calls[3].name = ba
    /\ Unwrap(built).field_names = <<ba, bar, foo>>

(***************************************************************************)
(* C14.  After any sequence of field() calls, build() gives each name the  *)
(* type passed in the last field() call for that name, and a name          *)
(* registered several times gets a single id.                              *)
(***************************************************************************)
LastCall(n) ==
    field_calls[CHOOSE i \in 1..Len(field_calls) :
                    /\ field_calls[i].name = n
                    /\ \A j \in (i + 1)..Len(field_calls) : field_calls[j].name # n]

C14_LastFieldCallWins ==
    IsSome(built) =>
        LET sch == Unwrap(built)
        IN \A n \in CalledNames :
              /\ get_field_type(sch, n) = Some(LastCall(n).ty)
              /\ Cardinality({i \in 0..(num_fields(sch) - 1) : field_name(sch, i) = Some(n)}) = 1

\* foo registered as Int and then as Bytes, as in test_schema_builder_overwrite_field
C14_Witness ==
    /\ IsSome(built)
    /\ Len(field_calls) >= 2
    /\ field_calls[1] = [name |-> foo, ty |-> TInt]
    /\ field_calls[2] = [name |-> foo, ty |-> TBytes]
    /\ get_field_type(Unwrap(built), foo) = Some(TBytes)

(***************************************************************************)
(* C15.  FilterParser::parse returns Ok only when the whole input has been *)
(* consumed: nothing but whitespace follows the last token of the returned *)
(* expression; otherwise it returns a ParseError.                          *)
(***************************************************************************)
Parsed == phase # "build" /\ ~(phase = "done" /\ result = Err("ParseError"))
ParseFailed == phase = "done" /\ result = Err("ParseError")

C15_WholeInputConsumed ==
    LET r == parse_expr(input, 0)
    IN /\ Parsed =>
             /\ r.ok
             /\ r.val = expr
             /\ \A i \in (r.pos + 1)..Len(input) : is_whitespace(input[i])
       /\ ParseFailed =>
             \/ ~r.ok
             \/ \E i \in (r.pos + 1)..Len(input) : ~is_whitespace(input[i])

\* `a == 1  `, with blanks after the expression, was accepted
C15_Witness ==
    /\ Parsed
    /\ input = <<"a", " ", "=", "=", " ", "1", " ", " ">>
    /\ expr = Comparison(Ident(<<"a">>), "Eq", Value(VInt(1)))

(***************************************************************************)
(* C16.  The parser gives or lower precedence than and, and lower than     *)
(* not, and not lower than a comparison; chains of one logical operator    *)
(* are left-associative; a parenthesized group is one operand of the       *)
(* enclosing operator.  Every logical expression of up to three operators  *)
(* over an identifier, a field and a comparison, written with parentheses  *)
(* only where these rules need them, parses to the tree it was written     *)
(* from, in the symbol spelling and in the word spelling; so does a        *)
(* comparison whose right operand is a parenthesized group, alone and      *)
(* followed by a logical operator.                                         *)
(***************************************************************************)
C16_PrecedenceAndAssociativity ==
    \A x \in LogicTexts \cup GroupTexts :
        (phase # "build" /\ input = x.text) => (Parsed /\ expr = x.tree)

\* the same for the texts with no parenthesized group on the right of a
\* comparison: `a || foo && c == 0` is Or(a, And(foo, c == 0)), `a || foo || a`
\* is Or(Or(a, foo), a), `not c == 0 && a` is And(Not(c == 0), a), and
\* `(a || foo) && a` is And(Or(a, foo), a)
PrecedenceWithoutGroupOnRight ==
    \A x \in LogicTexts :
        (phase # "build" /\ input = x.text) => (Parsed /\ expr = x.tree)

(***************************************************************************)
(* C17.  Comparison operators are recognized by longest match: `not in` is *)
(* NotIn and never In, `strict wildcard` is StrictWildcard and never       *)
(* Wildcard, `<=` and `>=` are Lte and Gte and never Lt or Gt followed by  *)
(* `=`; each of the 18 operator tokens maps to its one comparison          *)
(* operator.                                                               *)
(***************************************************************************)
C17_Tokens ==
    << [tok |-> <<"=", "=">>, op |-> "Eq", word |-> FALSE],
       [tok |-> <<"e", "q">>, op |-> "Eq", word |-> TRUE],
       [tok |-> <<"!", "=">>, op |-> "Neq", word |-> FALSE],
       [tok |-> <<"n", "e">>, op |-> "Neq", word |-> TRUE],
       [tok |-> <<"<">>, op |-> "Lt", word |-> FALSE],
       [tok |-> <<"l", "t">>, op |-> "Lt", word |-> TRUE],
       [tok |-> <<"<", "=">>, op |-> "Lte", word |-> FALSE],
       [tok |-> <<"l", "e">>, op |-> "Lte", word |-> TRUE],
       [tok |-> <<">">>, op |-> "Gt", word |-> FALSE],
       [tok |-> <<"g", "t">>, op |-> "Gt", word |-> TRUE],
       [tok |-> <<">", "=">>, op |-> "Gte", word |-> FALSE],
       [tok |-> <<"g", "e">>, op |-> "Gte", word |-> TRUE],
       [tok |-> <<"i", "n">>, op |-> "In", word |-> TRUE],
       [tok |-> <<"n", "o", "t", " ", "i", "n">>, op |-> "NotIn", word |-> TRUE],
       [tok |-> <<"m", "a", "t", "c", "h", "e", "s">>, op |-> "Matches", word |-> TRUE],
       [tok |-> <<"w", "i", "l", "d", "c", "a", "r", "d">>, op |-> "Wildcard", word |-> TRUE],
       [tok |-> <<"s", "t", "r", "i", "c", "t", " ", "w", "i", "l", "d", "c", "a", "r", "d">>,
        op |-> "StrictWildcard", word |-> TRUE],
       [tok |-> <<"c", "o", "n", "t", "a", "i", "n", "s">>, op |-> "Contains", word |-> TRUE] >>

\* foo <token> rhs parses to the comparison of foo and rhs by the operator of
\* the token, with blanks around the token and, for the symbols, also without
C17_LongestOperatorMatch ==
    \A i \in 1..Len(C17_Tokens), r \in RhsTexts, gap \in {<<>>, <<" ">>} :
        LET t == C17_Tokens[i]
        IN (/\ phase # "build"
            /\ gap = <<>> => ~t.word
            /\ input = <<"f", "o", "o">> \o gap \o t.tok \o gap \o r.text)
           => (Parsed /\ expr = Comparison(Ident(<<"f", "o", "o">>), t.op, r.tree))

\* `foo not in {1 2}` parsed to NotIn
C17_Witness ==
    /\ Parsed
    /\ input = <<"f", "o", "o", " ", "n", "o", "t", " ", "i", "n", " ", "{", "1", " ", "2", "}">>
    /\ expr = Comparison(Ident(<<"f", "o", "o">>), "NotIn", Value(VArray(<<VInt(1), VInt(2)>>)))

(***************************************************************************)
(* C18.  Every identifier that appears as an operand, alone or on either   *)
(* side of a comparison, is scanned greedily and parsed as one             *)
(* Value(Bytes(name)) holding the whole name, also when the name begins    *)
(* with a keyword such as not, in, or, and, true or false.                 *)
(***************************************************************************)
C18_IdentifierIsOneValue ==
    \A n \in IdentifierNames :
        /\ (phase # "build" /\ input = n) => (Parsed /\ expr = Ident(n))
        /\ (phase # "build" /\ input = n \o <<" ", "=", "=", " ", "1">>)
              => (Parsed /\ expr = Comparison(Ident(n), "Eq", Value(VInt(1))))
        /\ (phase # "build" /\ input = <<"f", "o", "o", " ", "=", "=", " ">> \o n)
              => (Parsed /\ expr = Comparison(Ident(<<"f", "o", "o">>), "Eq", Ident(n)))

(***************************************************************************)
(* C19.  Each argument of a function call is parsed by the full expression *)
(* rule: a literal argument keeps its kind (in f(42) the argument is       *)
(* Value(Int(42)), in f(true) it is Value(Bool(true))), and an argument    *)
(* that is itself a function call or a comparison is accepted.             *)
(***************************************************************************)
C19_ArgumentsAreExpressions ==
    /\ (phase # "build" /\ input = <<"f", "(", "4", "2", ")">>)
          => (Parsed /\ expr = FunctionCall("f", <<Value(VInt(42))>>))
    /\ (phase # "build" /\ input = <<"f", "(", "t", "r", "u", "e", ")">>)
          => (Parsed /\ expr = FunctionCall("f", <<Value(VBool(TRUE))>>))
    /\ (phase # "build" /\ input = <<"u", "p", "p", "e", "r", "(", "l", "o", "w", "e", "r", "(", "x", ")", ")">>)
          => (Parsed /\ expr = FunctionCall("upper", <<FunctionCall("lower", <<Ident(<<"x">>)>>)>>))
    /\ (phase # "build" /\ input = <<"f", "(", "x", " ", "=", "=", " ", "1", ")">>)
          => (Parsed /\ expr = FunctionCall("f", <<Comparison(Ident(<<"x">>), "Eq", Value(VInt(1)))>>))

(***************************************************************************)
(* C20.  A function call is accepted as the right-hand side of a           *)
(* comparison: `port == len(tags)` parses to a Comparison whose right      *)
(* operand is FunctionCall{len, [tags]}.                                   *)
(***************************************************************************)
C20_CallOnRightHandSide ==
    (phase # "build" /\ input = <<"p", "o", "r", "t", " ", "=", "=", " ", "l", "e", "n", "(", "t", "a", "g", "s", ")">>)
    => (Parsed /\ expr = Comparison(Ident(<<"p", "o", "r", "t">>), "Eq",
                                    FunctionCall("len", <<Ident(<<"t", "a", "g", "s">>)>>)))

(***************************************************************************)
(* C21.  For Value(Bytes(s)) the compiler emits LoadField(id) exactly when *)
(* s is valid UTF-8 and a registered field name of the schema, with id =   *)
(* schema.field_id(s), and LoadLiteral(Bytes(s)) otherwise; every other    *)
(* literal, and a list literal with its elements, is emitted as            *)
(* LoadLiteral unchanged.  The tree holds the same Value(Bytes(s)) for s   *)
(* written as a bare identifier and as a quoted string.                    *)
(***************************************************************************)
C21_Load(val) ==
    IF val.t = "Bytes" /\ IsUtf8(val.v) /\ val.v \in DOMAIN schema.fields
    THEN LoadField(Unwrap(field_id(schema, val.v)))
    ELSE LoadLiteral(val)

\* bar == foo and bar == "foo"
C21_Bare == <<"b", "a", "r", " ", "=", "=", " ", "f", "o", "o">>
C21_Quoted == <<"b", "a", "r", " ", "=", "=", " ", "\"", "f", "o", "o", "\"">>

Compiled == phase \in {"exec", "done"}

C21_FieldLoadRule ==
    /\ parse(C21_Bare) = [ok |-> Comparison(Value(VBytes(bar)), "Eq", Value(VBytes(foo)))]
    /\ parse(C21_Quoted) = parse(C21_Bare)
    /\ Compiled =>
          /\ expr.e = "Value" => bytecode = <<C21_Load(expr.val)>>
          /\ expr.e = "List" => bytecode = <<LoadLiteral(VArray(expr.vals))>>
          /\ expr.e = "Not" => bytecode = <<C21_Load(expr.inner.val), LogicalNot>>
          /\ expr.e \in {"Comparison", "LogicalOp"} =>
                /\ Len(bytecode) = 3
                /\ bytecode[1] = C21_Load(expr.left.val)
                /\ bytecode[2] = C21_Load(expr.right.val)
          /\ expr.e = "FunctionCall" =>
                /\ Len(bytecode) = Len(expr.args) + 1
                /\ \A i \in 1..Len(expr.args) : bytecode[i] = C21_Load(expr.args[i].val)

\* foo == <bytes that are not UTF-8> compiled to a field load and a literal load
C21_Witness ==
    /\ Compiled
    /\ expr = Comparison(Value(VBytes(foo)), "Eq", Value(VBytes(not_utf8)))
    /\ bytecode = <<LoadField(2), LoadLiteral(VBytes(not_utf8)), Compare("CompareEq")>>

(***************************************************************************)
(* C22.  For two byte strings, wildcard and strict wildcard return true    *)
(* exactly when the pattern matches the whole subject, where `*` matches   *)
(* any run of bytes including the empty run and every other byte matches   *)
(* only itself; wildcard compares without regard to letter case and strict *)
(* wildcard with regard to it, so a strict match always implies a          *)
(* non-strict match.                                                       *)
(***************************************************************************)
\* the positions of the subject that the first k bytes of the pattern can end at
RECURSIVE GlobReach(_, _, _)
GlobReach(s, p, k) ==
    IF k = 0 THEN {0}
    ELSE LET prev == GlobReach(s, p, k - 1)
         IN IF p[k] = 42
            THEN {j \in 0..Len(s) : \E i \in prev : i <= j}
            ELSE {i + 1 : i \in {x \in prev : x < Len(s) /\ s[x + 1] = p[k]}}

\* the pattern matches the whole subject
Glob(s, p) == Len(s) \in GlobReach(s, p, Len(p))

\* a string with the case of its letters disregarded: A..Z as a..z, and the
\* capital and the final sigma as the small sigma
FoldChar(c) ==
    IF c >= 65 /\ c <= 90 THEN c + 32
    ELSE IF c \in {CapitalSigma, FinalSigma} THEN SmallSigma
    ELSE c
CaseFold(s) ==
    IF IsUtf8(s)
    THEN string_of([i \in 1..Len(chars(s)) |-> FoldChar(chars(s)[i])])
    ELSE [i \in 1..Len(s) |-> FoldChar(s[i])]

WildcardDone ==
    /\ Finished
    /\ expr.e = "Comparison"
    /\ expr.op \in {"Wildcard", "StrictWildcard"}
    /\ expr.left = Value(VBytes(bar))
    /\ ~IsUnsetFieldRef(expr.left)
    /\ OperandValue(expr.left).t = "Bytes"
    /\ expr.right.val.t = "Bytes"
C22_Subject == OperandValue(expr.left).v
C22_Pattern == expr.right.val.v

C22_WildcardMatchesWhole ==
    WildcardDone =>
       /\ expr.op = "StrictWildcard" => result = Ok(Glob(C22_Subject, C22_Pattern))
       /\ expr.op = "Wildcard" => result = Ok(Glob(CaseFold(C22_Subject), CaseFold(C22_Pattern)))
       /\ (expr.op = "StrictWildcard" /\ result = Ok(TRUE))
             => cmp_wildcard(VBytes(C22_Subject), VBytes(C22_Pattern), FALSE)

\* the same for subjects and patterns of ASCII bytes
IsAscii(s) == \A i \in 1..Len(s) : s[i] < 128
WildcardOnAscii ==
    (WildcardDone /\ IsAscii(C22_Subject) /\ IsAscii(C22_Pattern)) => C22_WildcardMatchesWhole

\* a strict match is a non-strict match, for subjects and patterns that are UTF-8
StrictImpliesWildcard ==
    (WildcardDone /\ expr.op = "StrictWildcard" /\ result = Ok(TRUE))
    => cmp_wildcard(VBytes(C22_Subject), VBytes(C22_Pattern), FALSE)

(***************************************************************************)
(* C23.  LogicalAnd and LogicalOr push Bool of the conjunction or          *)
(* disjunction of the truthiness of their two operands and LogicalNot      *)
(* pushes Bool of the negated truthiness, where truthiness is: Bool(b) is  *)
(* b, Int(i) is i != 0, every Bytes (also empty) and every Ip is true, an  *)
(* Array or Map is true when non-empty; the final result of execute is the *)
(* truthiness of the last value.                                           *)
(***************************************************************************)
Truthy(val) ==
    \/ val.t = "Bool" /\ val.v
    \/ val.t = "Int" /\ val.v # 0
    \/ val.t \in {"Bytes", "Ip"}
    \/ val.t = "Array" /\ val.v # <<>>
    \/ val.t = "Map" /\ val.v # EmptyMap

\* the Bool a logical expression over two operands, or the negation of one,
\* comes to
C23_Expected ==
    CASE expr.e = "LogicalOp" /\ expr.op = "And" ->
              Truthy(OperandValue(expr.left)) /\ Truthy(OperandValue(expr.right))
      [] expr.e = "LogicalOp" /\ expr.op = "Or" ->
              Truthy(OperandValue(expr.left)) \/ Truthy(OperandValue(expr.right))
      [] expr.e = "Not" -> ~Truthy(OperandValue(expr.inner))
      [] expr.e = "Value" -> Truthy(OperandValue(expr))
      [] expr.e = "List" -> expr.vals # <<>>

C23_Truthiness ==
    /\ (phase = "exec" /\ pc = Len(bytecode) /\ expr.e \in {"LogicalOp", "Not"})
          => stack = <<VBool(C23_Expected)>>
    /\ (Finished /\ expr.e \in {"LogicalOp", "Not", "Value", "List"})
          => result = Ok(C23_Expected)

\* the empty byte string and an Ip address, both true: "" && 127.0.0.1 is true
C23_Witness ==
    /\ Finished
    /\ expr = LogicalOp("And", Value(VBytes(<<>>)), Value(VIp(localhost)))
    /\ result = Ok(TRUE)

(***************************************************************************)
(* C24: executions of one CompiledFilter against distinct contexts on      *)
(* several threads, interleaved in any order, each return what the same    *)
(* execution returns when run alone; a step of execute changes only the    *)
(* locals of its own call: not the context, the bytecode, the registry or  *)
(* another thread's call, and no call starts from what an earlier one left.*)
(***************************************************************************)
Returned(t) == phase = "shared" /\ runs[t].phase = "done"

C24_AsAlone ==
    \A t \in Threads :
        Returned(t) => runs[t].result = execute(bytecode, functions, runs[t].ctx)

C24_ReadOnly ==
    phase = "shared" =>
        /\ bytecode' = bytecode /\ functions' = functions /\ expr' = expr
        /\ \A t \in Threads :
              /\ runs[t].phase = "exec" => runs'[t].ctx = runs[t].ctx
              /\ runs'[t] # runs[t] => \A u \in Threads \ {t} : runs'[u] = runs[u]

C24_ConcurrentExecute == []C24_AsAlone /\ [][C24_ReadOnly]_vars

\* a thread has returned while another is in the middle of its call on a
\* different context, for which the filter gives a different result
C24_Witness ==
    \E t, u \in Threads :
        /\ Returned(t)
        /\ runs[u].phase = "exec" /\ runs[u].pc > 0 /\ runs[u].pc < Len(bytecode)
        /\ runs[t].ctx # runs[u].ctx
        /\ runs[t].result = Ok(TRUE)
        /\ execute(bytecode, functions, runs[u].ctx) = Ok(FALSE)

(***************************************************************************)
(* C27: after any sequence of register / register_fn calls the ids are     *)
(* exactly 0..N-1 for the N distinct names, function_name(function_id(n))  *)
(* is Some(n) and get_by_id(function_id(n)) is the callable registered     *)
(* last under n; a name keeps the id of its first registration.            *)
(***************************************************************************)
RegisteredNames == {registered[i][1] : i \in 1..Len(registered)}

FirstRegistration(name) ==
    CHOOSE i \in 1..Len(registered) :
        registered[i][1] = name /\ \A j \in 1..(i - 1) : registered[j][1] # name

LastRegistration(name) ==
    CHOOSE i \in 1..Len(registered) :
        registered[i][1] = name /\ \A j \in (i + 1)..Len(registered) : registered[j][1] # name

\* the number of distinct names registered before the first registration of name
FirstId(name) ==
    Cardinality({registered[j][1] : j \in 1..(FirstRegistration(name) - 1)})

LastCallable(name) == registered[LastRegistration(name)][2]

C27_DenseStableIds ==
    LET N == Cardinality(RegisteredNames)
    IN /\ num_functions(functions) = N
       /\ function_name(functions, N) = None
       /\ registry_get_by_id(functions, N) = None
       /\ \A n \in RegNames \ RegisteredNames : function_id(functions, n) = None
       /\ {function_id(functions, n) : n \in RegisteredNames} = {Some(i) : i \in 0..(N - 1)}
       /\ \A n \in RegisteredNames :
             LET id == function_id(functions, n)
             IN /\ id = Some(FirstId(n))
                /\ function_name(functions, Unwrap(id)) = Some(n)
                /\ registry_get_by_id(functions, Unwrap(id)) = Some(LastCallable(n))

\* a name registered first, another after it, and the first again with
\* another callable
C27_Witness ==
    /\ Len(registered) = 3
    /\ registered[1][1] = registered[3][1]
    /\ registered[1][1] # registered[2][1]
    /\ registered[1][2] # registered[3][2]
    /\ function_id(functions, registered[3][1]) = Some(0)
    /\ registry_get_by_id(functions, 0) = Some(registered[3][2])

(***************************************************************************)
(* C25: a CallFunction whose id maps to one of the six built-in names runs *)
(* the built-in body, never the callable registered under the name; under  *)
(* any other registered name it invokes the registered callable.           *)
(***************************************************************************)
\* the CallFunction of the compiled call has run
Called ==
    /\ phase \in {"exec", "done"}
    /\ expr.e = "FunctionCall"
    /\ expr.name \in RegisteredNames
    /\ \/ phase = "exec" /\ pc = Len(bytecode)
       \/ phase = "done"

CallArguments == [i \in 1..Len(expr.args) |-> expr.args[i].val]

\* what the call evaluates to: Some(value), or None for a failed call
C25_Expected ==
    IF expr.name \in BuiltinNames
    THEN BuiltinBody(Unwrap(from_name(expr.name)), CallArguments)
    ELSE call(LastCallable(expr.name), CallArguments)

C25_BuiltinFastPath ==
    Called =>
        IF IsSome(C25_Expected)
        THEN \/ phase = "exec" /\ stack = <<Unwrap(C25_Expected)>>
             \/ phase = "done" /\ result = Ok(to_bool(Unwrap(C25_Expected)))
        ELSE phase = "done" /\ result = Err("FunctionError")

\* a built-in name registered with a callable that gives another value on the
\* arguments has been called, and the built-in's value is on the stack
C25_Witness ==
    /\ Called
    /\ phase = "exec"
    /\ expr.name \in BuiltinNames
    /\ IsSome(C25_Expected)
    /\ call(LastCallable(expr.name), CallArguments) # C25_Expected

\* another name registered with a built-in struct has been called
OtherNameCalled ==
    /\ Called
    /\ phase = "exec"
    /\ expr.name \notin BuiltinNames
    /\ LastCallable(expr.name) = "LenFunction"
    /\ stack = <<VInt(1)>>

(***************************************************************************)
(* C26: a call with n arguments compiles to the code of the n arguments in *)
(* source order followed by CallFunction(id, n), and when the call runs    *)
(* the n values of the arguments, in order, are what it passes: for every  *)
(* n, n greater than 255 included.                                         *)
(***************************************************************************)
CallCompiled == Compiled /\ expr.e = "FunctionCall"

\* the program counter is at the CallFunction of the call
AtCall == CallCompiled /\ phase = "exec" /\ pc = Len(bytecode) - 1

\* the arguments split off the stack by the CallFunction arm
PassedArguments == SubSeq(stack, Len(stack) - Fetch.argc + 1, Len(stack))

\* the value of an argument of the calls of the model: a field or a literal
ArgumentValue(arg) ==
    IF CompileValue(arg.val, schema)[1].op = "LoadField"
    THEN LoadFieldValue(field_values, CompileValue(arg.val, schema)[1].fid)
    ELSE arg.val

C26_CallShape ==
    LET n == Len(expr.args)
    IN /\ Len(bytecode) = n + 1
       /\ \A i \in 1..n : bytecode[i] = CompileValue(expr.args[i].val, schema)[1]
       /\ bytecode[n + 1].op = "CallFunction"
       /\ bytecode[n + 1].argc = n
       /\ AtCall => PassedArguments = [i \in 1..n |-> ArgumentValue(expr.args[i])]

C26_ArgumentCount == CallCompiled => C26_CallShape

\* the same for the calls whose argument count fits 8 bits
C26_UpTo255 == (CallCompiled /\ Len(expr.args) < U8_RANGE) => C26_CallShape

\* a call with two different arguments is about to run
TwoArgumentsPassed ==
    /\ AtCall
    /\ Len(expr.args) = 2
    /\ expr.args[1] # expr.args[2]
    /\ stack[1] # stack[2]

(***************************************************************************)
(* C28: the right-hand side of a comparison is a single operand.  For a    *)
(* comparison whose right-hand side is a parenthesized group and which is  *)
(* followed by a logical operator, as in `a == (b) && c`, the top node of  *)
(* the tree is the logical operator and its left child is the comparison,  *)
(* whose right operand is the content of the group.                        *)
(***************************************************************************)
\* the texts `c == (foo) <and / or> x`, in both spellings, and `a == (b) && c`
GroupThenLogical ==
    {x.text : x \in GroupTexts \ {GroupOnRight}}
    \cup {<<"a", " ", "=", "=", " ", "(", "b", ")", " ", "&", "&", " ", "c">>}

\* the identifier between the parentheses of such a text
GroupContent == SubSeq(input, 7, CHOOSE i \in 7..Len(input) : input[i + 1] = ")")

C28_RightSideIsOneOperand ==
    (phase # "build" /\ input \in GroupThenLogical) =>
        /\ Parsed
        /\ expr.e = "LogicalOp"
        /\ expr.left.e = "Comparison"
        /\ expr.left.right = Ident(GroupContent)

\* what the parser returns for these texts: the comparison on top, and the
\* logical operator, with the group as its left operand, as its right-hand side
GroupSwallowsLogical ==
    (phase # "build" /\ input \in GroupThenLogical) =>
        /\ Parsed
        /\ expr.e = "Comparison"
        /\ expr.right.e = "LogicalOp"
        /\ expr.right.left = Ident(GroupContent)

\* a group alone on the right-hand side is the one operand
GroupAloneParsed ==
    /\ Parsed
    /\ input = GroupOnRight.text
    /\ expr = GroupOnRight.tree

(***************************************************************************)
(* C30: an integer literal on the right-hand side of a comparison parses   *)
(* to Value(Int(n)), n its value, or is rejected with a ParseError when it *)
(* does not fit a signed 64-bit integer; a run of digits never becomes a   *)
(* value of another kind.                                                  *)
(***************************************************************************)
C30_IntegerOrError ==
    \A lit \in IntegerLiterals :
        (phase # "build" /\ input = IntegerText(lit)) =>
            IF IsSome(lit.val)
            THEN Parsed /\ expr = Comparison(Ident(<<"a">>), "Eq", Value(VInt(Unwrap(lit.val))))
            ELSE ParseFailed

\* the same for the literals that fit, and for the negative ones that do not
IntegerInRangeOrNegative ==
    \A lit \in IntegerLiterals :
        (phase # "build" /\ input = IntegerText(lit)
            /\ (IsSome(lit.val) \/ lit.digits[1] = "-")) =>
            IF IsSome(lit.val)
            THEN Parsed /\ expr = Comparison(Ident(<<"a">>), "Eq", Value(VInt(Unwrap(lit.val))))
            ELSE ParseFailed

\* what the parser returns for a run of digits beyond i64::MAX: the digits as
\* Bytes, as for an identifier
DigitsBecomeBytes ==
    \A lit \in IntegerLiterals :
        (phase # "build" /\ input = IntegerText(lit)
            /\ ~IsSome(lit.val) /\ lit.digits[1] # "-") =>
            Parsed /\ expr = Comparison(Ident(<<"a">>), "Eq", Ident(lit.digits))

(***************************************************************************)
(* C29: the built-in sum returns an Int for every array argument: the sum  *)
(* of its Int elements, the others skipped; the evaluation does not abort  *)
(* when the total of the Int elements is outside the range of i64.         *)
(***************************************************************************)
\* the CallFunction of a registered sum has been run on the array
SumCalled ==
    /\ phase \in {"exec", "done"}
    /\ expr.e = "FunctionCall"
    /\ IsSome(function_id(functions, expr.name))
    /\ \/ phase = "exec" /\ pc = Len(bytecode)
       \/ phase = "done"

SumArgument == expr.args[1].val.v

C29_SumReturnsInt ==
    SumCalled =>
        /\ result # OverflowPanic
        /\ phase = "exec" =>
              /\ Len(stack) = 1 /\ stack[1].t = "Int"
              /\ ~SumOverflows(SumArgument) => stack[1].v = SumInts(SumArgument)

\* the same for the arrays whose additions all stay in the range of i64
SumInRange == (SumCalled /\ ~SumOverflows(SumArgument)) => C29_SumReturnsInt

\* with the overflow unchecked the additions wrap: sum([i64::MAX, 1]) is i64::MIN
SumWraps ==
    /\ SumCalled
    /\ phase = "exec"
    /\ SumArgument = <<VInt(I64_MAX), VInt(1)>>
    /\ stack = <<VInt(I64_MIN)>>

\* an array of Int and other elements summed, the others skipped
SumSkipsOthers ==
    /\ SumCalled
    /\ phase = "exec"
    /\ SumArgument = <<VInt(1), VBytes(baz), VInt(1)>>
    /\ stack = <<VInt(2)>>

====
